---- MODULE Spec2Model ----
(***************************************************************************)
(* Model of the interactive geometry core of the image cropping tool       *)
(* (src/script.js): SelectionManager (the selection store), ImageManager   *)
(* (the viewport transform) and EventHandler (the pointer / keyboard       *)
(* state machine), with the ImageCropApp operations that drive them.       *)
(*                                                                         *)
(* Numbers.  The source computes in JavaScript doubles.  The model uses    *)
(* integers: lengths and coordinates are whole pixels, the scale is kept   *)
(* in units of 1/ScaleUnit (scale = ScaleUnit is 100%), finer than the     *)
(* 0.001 the zoom guards compare with, and every division rounds down.     *)
(*                                                                         *)
(* Identifiers.  A selection id is the string `selection_${n}`; the model  *)
(* keeps it as the pair <<"selection_", n>> built by SelectionId, and the  *)
(* JavaScript null is the empty tuple.                                     *)
(*                                                                         *)
(* Object references.  EventHandler.currentSelection is a reference to a   *)
(* selection object.  The store only ever appends to the array or removes  *)
(* one element of it, so a reference to an object in the array is modelled *)
(* by its position, which the actions shift when an earlier element is     *)
(* removed; a reference to an object that has been removed from the array  *)
(* keeps a copy of the (from then on unreachable for writes) object.       *)
(***************************************************************************)
EXTENDS Integers, Sequences, FiniteSets, TLC

VARIABLES
    selections,          \* SelectionManager.selections
    activeSelectionId,   \* SelectionManager.activeSelectionId
    image,               \* ImageManager.image !== null
    scale,               \* ImageManager.scale, in units of 1/ScaleUnit
    offsetX, offsetY,    \* ImageManager.offsetX / offsetY
    originalWidth, originalHeight,
    displayWidth, displayHeight,
    mode,                \* EventHandler.mode
    isDrawing, isDragging, isResizing, isPanning,
    dragStartPos,        \* EventHandler.dragStartPos
    activeHandle,        \* EventHandler.activeHandle
    currentSelection,    \* EventHandler.currentSelection (a reference)
    originalSelection,   \* EventHandler.originalSelection (a copy)
    threw,               \* the last operation ended by raising an Error
    ret,                 \* what the last direct SelectionManager call returned
    lastCall,            \* the last direct SelectionManager call: operation and id
    pending,             \* image loads whose decode has not completed yet
    loads,               \* number of loadImage requests made so far
    steps,               \* number of zoom requests, pan moves and drag / resize moves so far
    drawn,               \* number of selections created by draw gestures so far
    createdSinceReset,   \* history: successful creates since the last reset()
    consecutiveCreates   \* history: the same, while nothing was deleted since

storeVars == <<selections, activeSelectionId>>
imageVars == <<image, scale, offsetX, offsetY, originalWidth, originalHeight,
               displayWidth, displayHeight>>
handlerVars == <<mode, isDrawing, isDragging, isResizing, isPanning,
                 dragStartPos, activeHandle, currentSelection, originalSelection>>
callVars == <<threw, ret, lastCall>>
boundVars == <<pending, loads, steps, drawn>>
historyVars == <<createdSinceReset, consecutiveCreates>>
vars == <<storeVars, imageVars, handlerVars, callVars, boundVars, historyVars>>

----------------------------------------------------------------------------
(* Generic helpers *)

Null == <<>>

\* the value of a call that returns nothing, and a reference that is null
Undefined == [kind |-> "undefined"]
NullRef == [kind |-> "null"]

Min(a, b) == IF a <= b THEN a ELSE b
Max(a, b) == IF a >= b THEN a ELSE b
Abs(a) == IF a >= 0 THEN a ELSE -a

\* Array.prototype.splice(index, 1) on a 1-based sequence
Splice(seq, index) ==
    [k \in 1..(Len(seq) - 1) |-> IF k < index THEN seq[k] ELSE seq[k + 1]]

\* Object.assign(target, source): every field of source overwrites target's
ObjectAssign(target, source) ==
    [f \in DOMAIN target |-> IF f \in DOMAIN source THEN source[f] ELSE target[f]]

----------------------------------------------------------------------------
(* SelectionManager *)

\* the template literal `selection_${n}`
SelectionId(n) == <<"selection_", n>>

\* a store value: the two fields of a SelectionManager
Store(sels, act) == [selections |-> sels, activeSelectionId |-> act]

\* the outcome of a call: the store after it, whether it raised, what it returned
Outcome(sels, act, raised, value) ==
    [selections |-> sels, activeSelectionId |-> act, threw |-> raised, ret |-> value]

\* selections.findIndex(s => s.id === id): the first match, 0 when there is none
FindIndexById(sels, id) ==
    IF \E i \in 1..Len(sels) : sels[i].id = id
    THEN CHOOSE i \in 1..Len(sels) :
            /\ sels[i].id = id
            /\ \A j \in 1..(i - 1) : sels[j].id # id
    ELSE 0

\* selections.find(s => s.active): the first match, 0 when there is none
getActiveSelection(sels) ==
    IF \E i \in 1..Len(sels) : sels[i].active
    THEN CHOOSE i \in 1..Len(sels) :
            /\ sels[i].active
            /\ \A j \in 1..(i - 1) : ~sels[j].active
    ELSE 0

setActiveSelection(S, id) ==
    LET cleared == [k \in 1..Len(S.selections) |->
                        [S.selections[k] EXCEPT !.active = FALSE]]
        index == FindIndexById(cleared, id)
    IN  IF index # 0
        THEN Store([cleared EXCEPT ![index].active = TRUE], id)
        ELSE Store(cleared, S.activeSelectionId)

\* faulty variant: the active flags of the selections are left as they are
clearActiveSelection_idOnly(S) == Store(S.selections, Null)

clearActiveSelection(S) ==
    Store([k \in 1..Len(S.selections) |-> [S.selections[k] EXCEPT !.active = FALSE]],
          Null)

\* faulty variant: the size check comes after the push
createSelection_pushBeforeCheck(S, startX, startY, endX, endY) ==
    LET selection == [id |-> SelectionId(Len(S.selections) + 1),
                      x |-> Min(startX, endX),
                      y |-> Min(startY, endY),
                      width |-> Abs(endX - startX),
                      height |-> Abs(endY - startY),
                      active |-> FALSE]
        pushed == Store(Append(S.selections, selection), S.activeSelectionId)
    IN  IF selection.width < 1 \/ selection.height < 1
        THEN Outcome(pushed.selections, pushed.activeSelectionId, TRUE, Undefined)
        ELSE LET done == setActiveSelection(pushed, selection.id)
             IN  Outcome(done.selections, done.activeSelectionId, FALSE,
                         done.selections[Len(done.selections)])

\* faulty variant: the start corner is taken as the top-left corner
createSelection_noNormalise(S, startX, startY, endX, endY) ==
    LET selection == [id |-> SelectionId(Len(S.selections) + 1),
                      x |-> startX,
                      y |-> startY,
                      width |-> Abs(endX - startX),
                      height |-> Abs(endY - startY),
                      active |-> FALSE]
    IN  IF selection.width < 1 \/ selection.height < 1
        THEN Outcome(S.selections, S.activeSelectionId, TRUE, Undefined)
        ELSE LET done == setActiveSelection(
                            Store(Append(S.selections, selection), S.activeSelectionId),
                            selection.id)
             IN  Outcome(done.selections, done.activeSelectionId, FALSE,
                         done.selections[Len(done.selections)])

\* The `created` time stamp of a selection is never read and is left out.
createSelection(S, startX, startY, endX, endY) ==
    LET selection == [id |-> SelectionId(Len(S.selections) + 1),
                      x |-> Min(startX, endX),
                      y |-> Min(startY, endY),
                      width |-> Abs(endX - startX),
                      height |-> Abs(endY - startY),
                      active |-> FALSE]
    IN  IF selection.width < 1 \/ selection.height < 1
        THEN \* throw new Error('选择框尺寸太小')
             Outcome(S.selections, S.activeSelectionId, TRUE, Undefined)
        ELSE LET done == setActiveSelection(
                            Store(Append(S.selections, selection), S.activeSelectionId),
                            selection.id)
             IN  \* the returned object is the pushed one, after setActiveSelection
                 Outcome(done.selections, done.activeSelectionId, FALSE,
                         done.selections[Len(done.selections)])

updateSelection(S, id, bounds) ==
    LET index == FindIndexById(S.selections, id)
    IN  IF index # 0
        THEN Store([S.selections EXCEPT ![index] = ObjectAssign(S.selections[index], bounds)],
                   S.activeSelectionId)
        ELSE S

\* renumberSelections: forEach in index order, from position i on
RECURSIVE RenumberFrom(_, _, _)
RenumberFrom(sels, act, i) ==
    IF i > Len(sels)
    THEN Store(sels, act)
    ELSE LET newId == SelectionId(i)
         IN  IF sels[i].id # newId
             THEN RenumberFrom([sels EXCEPT ![i].id = newId],
                               IF act = sels[i].id THEN newId ELSE act,
                               i + 1)
             ELSE RenumberFrom(sels, act, i + 1)

\* faulty variant: ids are left as they were
renumberSelections_none(S) == S

renumberSelections(S) == RenumberFrom(S.selections, S.activeSelectionId, 1)

\* faulty variant: the index is not compared with -1
deleteSelection_spliceUnchecked(S, id) ==
    LET index == FindIndexById(S.selections, id)
    IN  IF Len(S.selections) > 0
        THEN \* splice(-1, 1) removes the last element
             renumberSelections(
                Store(Splice(S.selections, IF index # 0 THEN index ELSE Len(S.selections)),
                      IF S.activeSelectionId = id THEN Null ELSE S.activeSelectionId))
        ELSE S

\* faulty variant: activeSelectionId is not cleared for the deleted selection
deleteSelection_keepActiveId(S, id) ==
    LET index == FindIndexById(S.selections, id)
    IN  IF index # 0
        THEN renumberSelections(Store(Splice(S.selections, index), S.activeSelectionId))
        ELSE S

deleteSelection(S, id) ==
    LET index == FindIndexById(S.selections, id)
    IN  IF index # 0
        THEN renumberSelections(
                Store(Splice(S.selections, index),
                      IF S.activeSelectionId = id THEN Null ELSE S.activeSelectionId))
        ELSE S

\* faulty variant: only the list is emptied
reset_keepActiveId(S) == Store(<<>>, S.activeSelectionId)

reset(S) == Store(<<>>, Null)

----------------------------------------------------------------------------
(* ImageManager.  A viewport value V is the record of its fields. *)

\* canvas.width / canvas.height, set by ImageCropApp.resizeCanvas from the container
CanvasWidth == 200
CanvasHeight == 160

\* the fixed-point unit of ImageManager.scale: scale = 1 is ScaleUnit
ScaleUnit == 10000

\* ImageManager.minScale = 0.1 and maxScale = 5
minScale == 1000
maxScale == 50000

\* the 0.001 below which setScale and setScaleKeepCentered ignore a change
Epsilon == 10

\* the state resetImageState() leaves, which is also the constructor's
NoImage ==
    [image |-> FALSE, scale |-> ScaleUnit, offsetX |-> 0, offsetY |-> 0,
     originalWidth |-> 0, originalHeight |-> 0,
     displayWidth |-> 0, displayHeight |-> 0]

resetImageState(V) == NoImage

\* faulty variant: an image is taken to be there always
hasImage_always(V) == TRUE

hasImage(V) == V.image

\* faulty variant: the margin is not taken off the canvas
fitScale_noMargin(canvasWidth, canvasHeight, imageWidth, imageHeight) ==
    LET scaleX == (canvasWidth * ScaleUnit) \div imageWidth
        scaleY == (canvasHeight * ScaleUnit) \div imageHeight
    IN  Max(Min(Min(scaleX, scaleY), ScaleUnit), minScale)

\* the scale fitImageToCanvas computes, for a canvas and an image of the given sizes
fitScale(canvasWidth, canvasHeight, imageWidth, imageHeight) ==
    LET margin == 20
        availableWidth == canvasWidth - margin * 2
        availableHeight == canvasHeight - margin * 2
        scaleX == (availableWidth * ScaleUnit) \div imageWidth
        scaleY == (availableHeight * ScaleUnit) \div imageHeight
    IN  Max(Min(Min(scaleX, scaleY), ScaleUnit), minScale)

fitImageToCanvas(V) ==
    IF ~V.image THEN V
    ELSE LET fitted == fitScale(CanvasWidth, CanvasHeight, V.originalWidth, V.originalHeight)
             dw == (V.originalWidth * fitted) \div ScaleUnit
             dh == (V.originalHeight * fitted) \div ScaleUnit
         IN  [V EXCEPT !.scale = fitted,
                       !.displayWidth = dw,
                       !.displayHeight = dh,
                       !.offsetX = (CanvasWidth - dw) \div 2,
                       !.offsetY = (CanvasHeight - dh) \div 2]

resetView(V) == fitImageToCanvas(V)

\* faulty variant: the requested scale is applied without the clamp
setScaleKeepCentered_noClamp(V, requested) ==
    IF ~V.image THEN V
    ELSE LET newScale == requested
             dw == (V.originalWidth * newScale) \div ScaleUnit
             dh == (V.originalHeight * newScale) \div ScaleUnit
         IN  IF Abs(newScale - V.scale) < Epsilon
             THEN V
             ELSE [V EXCEPT !.scale = newScale,
                            !.displayWidth = dw,
                            !.displayHeight = dh,
                            !.offsetX = (CanvasWidth - dw) \div 2,
                            !.offsetY = (CanvasHeight - dh) \div 2]

\* faulty variant: the image is not centred again
setScaleKeepCentered_keepOffsets(V, requested) ==
    IF ~V.image THEN V
    ELSE LET newScale == Max(minScale, Min(requested, maxScale))
             dw == (V.originalWidth * newScale) \div ScaleUnit
             dh == (V.originalHeight * newScale) \div ScaleUnit
         IN  IF Abs(newScale - V.scale) < Epsilon
             THEN V
             ELSE [V EXCEPT !.scale = newScale,
                            !.displayWidth = dw,
                            !.displayHeight = dh]

setScaleKeepCentered(V, requested) ==
    IF ~V.image THEN V
    ELSE LET newScale == Max(minScale, Min(requested, maxScale))
             dw == (V.originalWidth * newScale) \div ScaleUnit
             dh == (V.originalHeight * newScale) \div ScaleUnit
         IN  IF Abs(newScale - V.scale) < Epsilon
             THEN V
             ELSE [V EXCEPT !.scale = newScale,
                            !.displayWidth = dw,
                            !.displayHeight = dh,
                            !.offsetX = (CanvasWidth - dw) \div 2,
                            !.offsetY = (CanvasHeight - dh) \div 2]

\* scale * 1.2 and scale / 1.2
zoomIn(V) == setScaleKeepCentered(V, Min((V.scale * 12) \div 10, maxScale))
zoomOut(V) == setScaleKeepCentered(V, Max((V.scale * 10) \div 12, minScale))

\* one axis of constrainImagePosition
ConstrainAxis(offset, display, canvas) ==
    IF display <= canvas
    THEN LET center == (canvas - display) \div 2
             maxDeviation == 100
         IN  Max(center - maxDeviation, Min(offset, center + maxDeviation))
    ELSE LET minVisible == Min(200, (display * 3) \div 10)
             maxOffset == minVisible - display
             minOffset == canvas - minVisible
         IN  Max(maxOffset, Min(offset, minOffset))

\* faulty variant: the offsets are left where they are
constrainImagePosition_none(V) == V

constrainImagePosition(V) ==
    IF ~V.image THEN V
    ELSE [V EXCEPT !.offsetX = ConstrainAxis(V.offsetX, V.displayWidth, CanvasWidth),
                   !.offsetY = ConstrainAxis(V.offsetY, V.displayHeight, CanvasHeight)]

\* setScale(newScale, centerX, centerY) with both centre coordinates given
setScale(V, requested, centerX, centerY) ==
    IF ~V.image THEN V
    ELSE LET newScale == Max(minScale, Min(requested, maxScale))
             oldScale == V.scale
             currentImageCenterX == V.offsetX + V.displayWidth \div 2
             currentImageCenterY == V.offsetY + V.displayHeight \div 2
             offsetFromImageCenterX == centerX - currentImageCenterX
             offsetFromImageCenterY == centerY - currentImageCenterY
             dw == (V.originalWidth * newScale) \div ScaleUnit
             dh == (V.originalHeight * newScale) \div ScaleUnit
             \* offsetFromImageCenter * scaleRatio, scaleRatio = newScale / oldScale
             newImageCenterX == centerX - (offsetFromImageCenterX * newScale) \div oldScale
             newImageCenterY == centerY - (offsetFromImageCenterY * newScale) \div oldScale
         IN  IF Abs(newScale - oldScale) < Epsilon
             THEN V
             ELSE constrainImagePosition(
                    [V EXCEPT !.scale = newScale,
                              !.displayWidth = dw,
                              !.displayHeight = dh,
                              !.offsetX = newImageCenterX - dw \div 2,
                              !.offsetY = newImageCenterY - dh \div 2])

\* setScale(newScale) with the centre left to default to the canvas centre
setScaleDefaultCenter(V, requested) ==
    setScale(V, requested, CanvasWidth \div 2, CanvasHeight \div 2)

\* level is a percentage: scale = level / 100
setZoomLevel(V, level, keepCentered) ==
    LET requested == (level * ScaleUnit) \div 100
    IN  IF keepCentered THEN setScaleKeepCentered(V, requested)
                        ELSE setScaleDefaultCenter(V, requested)

\* Math.round(scale * 100)
getZoomPercentage(V) == (V.scale + ScaleUnit \div 200) \div (ScaleUnit \div 100)

canZoomIn(V) == V.scale < maxScale
canZoomOut(V) == V.scale > minScale

canvasToImage(V, canvasX, canvasY) ==
    [x |-> ((canvasX - V.offsetX) * ScaleUnit) \div V.scale,
     y |-> ((canvasY - V.offsetY) * ScaleUnit) \div V.scale]

imageToCanvas(V, imageX, imageY) ==
    [x |-> (imageX * V.scale) \div ScaleUnit + V.offsetX,
     y |-> (imageY * V.scale) \div ScaleUnit + V.offsetY]

(* The two conversions without the rounding to whole pixels: exact          *)
(* arithmetic on fractions n/d kept in lowest terms, d > 0.                *)

RECURSIVE GCD(_, _)
GCD(a, b) == IF b = 0 THEN a ELSE GCD(b, a % b)

Rat(n, d) ==
    LET g == GCD(Abs(n), Abs(d))
        sign == IF d < 0 THEN -1 ELSE 1
    IN  [n |-> sign * (n \div g), d |-> sign * (d \div g)]

RatInt(i) == [n |-> i, d |-> 1]
\* over the least common denominator, so that the products stay small
RatAdd(a, b) ==
    LET g == GCD(a.d, b.d)
    IN  Rat(a.n * (b.d \div g) + b.n * (a.d \div g), (a.d \div g) * b.d)
RatSub(a, b) ==
    LET g == GCD(a.d, b.d)
    IN  Rat(a.n * (b.d \div g) - b.n * (a.d \div g), (a.d \div g) * b.d)
\* cross-cancelled before multiplying, so that the products stay small
RatMul(a, b) ==
    LET l == Rat(a.n, b.d)
        r == Rat(b.n, a.d)
    IN  Rat(l.n * r.n, l.d * r.d)
RatDiv(a, b) == RatMul(a, Rat(b.d, b.n))

\* this.scale as a fraction
ScaleOf(V) == Rat(V.scale, ScaleUnit)

\* faulty variant: the image coordinates are rounded down to whole pixels
canvasToImageExact_rounded(V, canvasX, canvasY) ==
    [x |-> RatInt(canvasToImage(V, canvasX.n \div canvasX.d, canvasY.n \div canvasY.d).x),
     y |-> RatInt(canvasToImage(V, canvasX.n \div canvasX.d, canvasY.n \div canvasY.d).y)]

canvasToImageExact(V, canvasX, canvasY) ==
    [x |-> RatDiv(RatSub(canvasX, RatInt(V.offsetX)), ScaleOf(V)),
     y |-> RatDiv(RatSub(canvasY, RatInt(V.offsetY)), ScaleOf(V))]

imageToCanvasExact(V, imageX, imageY) ==
    [x |-> RatAdd(RatMul(imageX, ScaleOf(V)), RatInt(V.offsetX)),
     y |-> RatAdd(RatMul(imageY, ScaleOf(V)), RatInt(V.offsetY))]

\* comparison of fractions with positive denominators
RatLeq(a, b) ==
    LET g == GCD(a.d, b.d)
    IN  a.n * (b.d \div g) <= b.n * (a.d \div g)
RatMin(a, b) == IF RatLeq(a, b) THEN a ELSE b
RatMax(a, b) == IF RatLeq(a, b) THEN b ELSE a

\* one axis of constrainImagePosition, on fractions
ConstrainAxisExact(offset, display, canvas) ==
    IF RatLeq(display, RatInt(canvas))
    THEN LET center == RatDiv(RatSub(RatInt(canvas), display), RatInt(2))
             maxDeviation == RatInt(100)
         IN  RatMax(RatSub(center, maxDeviation),
                    RatMin(offset, RatAdd(center, maxDeviation)))
    ELSE LET minVisible == RatMin(RatInt(200), RatMul(display, Rat(3, 10)))
             maxOffset == RatSub(minVisible, display)
             minOffset == RatSub(RatInt(canvas), minVisible)
         IN  RatMax(maxOffset, RatMin(offset, minOffset))

\* faulty variant: the image centre is kept where it was, whatever the anchor
setScaleExact_keepImageCenter(V, requested, centerX, centerY) ==
    LET newScale == Max(minScale, Min(requested, maxScale))
        currentImageCenterX ==
            RatAdd(RatInt(V.offsetX),
                   RatDiv(RatMul(RatInt(V.originalWidth), ScaleOf(V)), RatInt(2)))
        currentImageCenterY ==
            RatAdd(RatInt(V.offsetY),
                   RatDiv(RatMul(RatInt(V.originalHeight), ScaleOf(V)), RatInt(2)))
        dw == RatMul(RatInt(V.originalWidth), Rat(newScale, ScaleUnit))
        dh == RatMul(RatInt(V.originalHeight), Rat(newScale, ScaleUnit))
    IN  [scale |-> newScale, displayWidth |-> dw, displayHeight |-> dh,
         offsetX |-> RatSub(currentImageCenterX, RatDiv(dw, RatInt(2))),
         offsetY |-> RatSub(currentImageCenterY, RatDiv(dh, RatInt(2)))]

\* the scale, display size and offsets setScale assigns before it calls
\* constrainImagePosition, as fractions (displayWidth = originalWidth * scale
\* before and after)
setScaleExact(V, requested, centerX, centerY) ==
    LET newScale == Max(minScale, Min(requested, maxScale))
        currentImageCenterX ==
            RatAdd(RatInt(V.offsetX),
                   RatDiv(RatMul(RatInt(V.originalWidth), ScaleOf(V)), RatInt(2)))
        currentImageCenterY ==
            RatAdd(RatInt(V.offsetY),
                   RatDiv(RatMul(RatInt(V.originalHeight), ScaleOf(V)), RatInt(2)))
        offsetFromImageCenterX == RatSub(RatInt(centerX), currentImageCenterX)
        offsetFromImageCenterY == RatSub(RatInt(centerY), currentImageCenterY)
        scaleRatio == Rat(newScale, V.scale)
        dw == RatMul(RatInt(V.originalWidth), Rat(newScale, ScaleUnit))
        dh == RatMul(RatInt(V.originalHeight), Rat(newScale, ScaleUnit))
        newImageCenterX == RatSub(RatInt(centerX), RatMul(offsetFromImageCenterX, scaleRatio))
        newImageCenterY == RatSub(RatInt(centerY), RatMul(offsetFromImageCenterY, scaleRatio))
    IN  [scale |-> newScale, displayWidth |-> dw, displayHeight |-> dh,
         offsetX |-> RatSub(newImageCenterX, RatDiv(dw, RatInt(2))),
         offsetY |-> RatSub(newImageCenterY, RatDiv(dh, RatInt(2)))]

\* what a setScale call that changes the scale does to the image point under
\* the anchor: the point before, the point after, and whether
\* constrainImagePosition moved an offset
anchorUnderSetScale(V, requested, centerX, centerY) ==
    LET E == setScaleExact(V, requested, centerX, centerY)
        constrainedX == ConstrainAxisExact(E.offsetX, E.displayWidth, CanvasWidth)
        constrainedY == ConstrainAxisExact(E.offsetY, E.displayHeight, CanvasHeight)
        newScale == Rat(E.scale, ScaleUnit)
    IN  [before |-> canvasToImageExact(V, RatInt(centerX), RatInt(centerY)),
         after |-> [x |-> RatDiv(RatSub(RatInt(centerX), constrainedX), newScale),
                    y |-> RatDiv(RatSub(RatInt(centerY), constrainedY), newScale)],
         constrained |-> constrainedX # E.offsetX \/ constrainedY # E.offsetY,
         changed |-> Abs(E.scale - V.scale) >= Epsilon]

isPointInImage(V, x, y) ==
    /\ x >= V.offsetX /\ x <= V.offsetX + V.displayWidth
    /\ y >= V.offsetY /\ y <= V.offsetY + V.displayHeight

----------------------------------------------------------------------------
(* EventHandler.  A handler value H is the record of its fields; a world    *)
(* W is the handler, the viewport and the store together with the outcome  *)
(* of the event.                                                            *)

World(H, V, S, raised) == [h |-> H, v |-> V, s |-> S, threw |-> raised]

\* the fields the constructor sets
IdleHandler ==
    [mode |-> "select", isDrawing |-> FALSE, isDragging |-> FALSE,
     isResizing |-> FALSE, isPanning |-> FALSE,
     dragStartPos |-> [x |-> 0, y |-> 0], activeHandle |-> "null",
     currentSelection |-> NullRef, originalSelection |-> NullRef]

\* references to selection objects
LiveRef(index) == [kind |-> "live", index |-> index]
DetachedRef(obj) == [kind |-> "detached", obj |-> obj]
Deref(ref, sels) == IF ref.kind = "live" THEN sels[ref.index] ELSE ref.obj

\* what a reference becomes when splice(index, 1) removes an element
RefAfterSplice(ref, sels, index) ==
    IF ref.kind # "live" \/ index = 0 THEN ref
    ELSE IF ref.index = index THEN DetachedRef(sels[index])
    ELSE IF ref.index > index THEN LiveRef(ref.index - 1)
    ELSE ref

\* what a reference becomes when the array is replaced by an empty one
RefAfterReset(ref, sels) ==
    IF ref.kind = "live" THEN DetachedRef(sels[ref.index]) ELSE ref

HandleNames == <<"nw", "ne", "sw", "se", "n", "s", "w", "e">>

\* the canvas position of a handle of a selection
HandlePos(V, selection, handleType) ==
    LET c == imageToCanvas(V, selection.x, selection.y)
        canvasWidth == (selection.width * V.scale) \div ScaleUnit
        canvasHeight == (selection.height * V.scale) \div ScaleUnit
    IN  [x |-> IF handleType \in {"nw", "sw", "w"} THEN c.x
               ELSE IF handleType \in {"ne", "se", "e"} THEN c.x + canvasWidth
               ELSE c.x + canvasWidth \div 2,
         y |-> IF handleType \in {"nw", "ne", "n"} THEN c.y
               ELSE IF handleType \in {"sw", "se", "s"} THEN c.y + canvasHeight
               ELSE c.y + canvasHeight \div 2]

\* faulty variant: the tolerance grows and shrinks with the scale
getResizeHandle_scaledTolerance(V, mouseX, mouseY, selection) ==
    LET handleSize == 8
        tolerance == ((handleSize \div 2) * V.scale) \div ScaleUnit
        Hit(k) == LET pos == HandlePos(V, selection, HandleNames[k])
                  IN  Abs(mouseX - pos.x) <= tolerance /\ Abs(mouseY - pos.y) <= tolerance
    IN  IF \E k \in 1..8 : Hit(k)
        THEN HandleNames[CHOOSE k \in 1..8 : Hit(k) /\ \A j \in 1..(k - 1) : ~Hit(j)]
        ELSE "null"

\* the first handle, in the order of the object literal, within the tolerance
getResizeHandle(V, mouseX, mouseY, selection) ==
    LET handleSize == 8
        tolerance == handleSize \div 2
        Hit(k) == LET pos == HandlePos(V, selection, HandleNames[k])
                  IN  Abs(mouseX - pos.x) <= tolerance /\ Abs(mouseY - pos.y) <= tolerance
    IN  IF \E k \in 1..8 : Hit(k)
        THEN HandleNames[CHOOSE k \in 1..8 : Hit(k) /\ \A j \in 1..(k - 1) : ~Hit(j)]
        ELSE "null"

\* the index of the last selection whose canvas rectangle holds the point, or 0
findSelectionAtPoint(V, sels, canvasX, canvasY) ==
    LET Holds(i) ==
            LET c == imageToCanvas(V, sels[i].x, sels[i].y)
                canvasWidth == (sels[i].width * V.scale) \div ScaleUnit
                canvasHeight == (sels[i].height * V.scale) \div ScaleUnit
            IN  /\ canvasX >= c.x /\ canvasX <= c.x + canvasWidth
                /\ canvasY >= c.y /\ canvasY <= c.y + canvasHeight
    IN  IF \E i \in 1..Len(sels) : Holds(i)
        THEN CHOOSE i \in 1..Len(sels) : Holds(i) /\ \A j \in (i + 1)..Len(sels) : ~Holds(j)
        ELSE 0

\* faulty variant: the snapshot of the resize gesture is left behind
cancelCurrentOperation_keepSnapshot(H) ==
    [H EXCEPT !.isDrawing = FALSE, !.isDragging = FALSE, !.isResizing = FALSE,
              !.isPanning = FALSE, !.activeHandle = "null",
              !.currentSelection = NullRef]

cancelCurrentOperation(H) ==
    [H EXCEPT !.isDrawing = FALSE, !.isDragging = FALSE, !.isResizing = FALSE,
              !.isPanning = FALSE, !.activeHandle = "null",
              !.currentSelection = NullRef, !.originalSelection = NullRef]

\* faulty variant: the gesture in progress is not cancelled
setMode_modeOnly(H, newMode) == [H EXCEPT !.mode = newMode]

setMode(H, newMode) == cancelCurrentOperation([H EXCEPT !.mode = newMode])

handleMouseDown(H, V, S, x, y) ==
    IF ~hasImage(V) THEN World(H, V, S, FALSE)
    ELSE
    LET H1 == [H EXCEPT !.dragStartPos = [x |-> x, y |-> y]]
        imageCoords == canvasToImage(V, x, y)
        active == getActiveSelection(S.selections)
        handle == IF active # 0
                  THEN getResizeHandle(V, x, y, S.selections[active])
                  ELSE "null"
        clicked == findSelectionAtPoint(V, S.selections, x, y)
    IN  IF H.mode = "pan"
        THEN World([H1 EXCEPT !.isPanning = TRUE], V, S, FALSE)
        ELSE IF ~isPointInImage(V, x, y)
        THEN World(H1, V, S, FALSE)
        ELSE IF handle # "null"
        THEN World([H1 EXCEPT !.isResizing = TRUE,
                              !.activeHandle = handle,
                              !.currentSelection = LiveRef(active),
                              !.originalSelection = S.selections[active]],
                   V, S, FALSE)
        ELSE IF clicked # 0
        THEN World([H1 EXCEPT !.isDragging = TRUE,
                              !.currentSelection = LiveRef(clicked)],
                   V, setActiveSelection(S, S.selections[clicked].id), FALSE)
        ELSE World([H1 EXCEPT !.isDrawing = TRUE,
                              !.dragStartPos = imageCoords],
                   V, clearActiveSelection(S), FALSE)

\* faulty variant: no minimum size is enforced
resizeBounds_noFloor(original, handle, deltaX, deltaY, imgWidth, imgHeight) ==
    LET movesX == handle \in {"nw", "sw", "w"}
        movesY == handle \in {"nw", "ne", "n"}
        growsW == handle \in {"ne", "se", "e"}
        growsH == handle \in {"sw", "se", "s"}
        x1 == IF movesX THEN original.x + deltaX ELSE original.x
        y1 == IF movesY THEN original.y + deltaY ELSE original.y
        w1 == IF movesX THEN original.width - deltaX
              ELSE IF growsW THEN original.width + deltaX ELSE original.width
        h1 == IF movesY THEN original.height - deltaY
              ELSE IF growsH THEN original.height + deltaY ELSE original.height
        x3 == Max(0, x1)
        y3 == Max(0, y1)
    IN  [original EXCEPT !.x = x3, !.y = y3,
                         !.width = Min(w1, imgWidth - x3),
                         !.height = Min(h1, imgHeight - y3)]

\* the switch of resizeSelection: the bounds the pointer asks for, before the
\* minimum size and the image bounds are applied
resizeRequest(original, handle, deltaX, deltaY) ==
    LET movesX == handle \in {"nw", "sw", "w"}
        movesY == handle \in {"nw", "ne", "n"}
        growsW == handle \in {"ne", "se", "e"}
        growsH == handle \in {"sw", "se", "s"}
    IN  [x |-> IF movesX THEN original.x + deltaX ELSE original.x,
         y |-> IF movesY THEN original.y + deltaY ELSE original.y,
         width |-> IF movesX THEN original.width - deltaX
                   ELSE IF growsW THEN original.width + deltaX ELSE original.width,
         height |-> IF movesY THEN original.height - deltaY
                    ELSE IF growsH THEN original.height + deltaY ELSE original.height]

\* the part of resizeSelection that computes newBounds from the snapshot
resizeBounds(original, handle, deltaX, deltaY, imgWidth, imgHeight) ==
    LET movesX == handle \in {"nw", "sw", "w"}     \* the cases that change x
        movesY == handle \in {"nw", "ne", "n"}     \* the cases that change y
        growsW == handle \in {"ne", "se", "e"}
        growsH == handle \in {"sw", "se", "s"}
        x1 == IF movesX THEN original.x + deltaX ELSE original.x
        y1 == IF movesY THEN original.y + deltaY ELSE original.y
        w1 == IF movesX THEN original.width - deltaX
              ELSE IF growsW THEN original.width + deltaX ELSE original.width
        h1 == IF movesY THEN original.height - deltaY
              ELSE IF growsH THEN original.height + deltaY ELSE original.height
        minSize == 10
        \* activeHandle.includes('w') and activeHandle.includes('n')
        x2 == IF w1 < minSize /\ movesX
              THEN original.x + original.width - minSize ELSE x1
        w2 == IF w1 < minSize THEN minSize ELSE w1
        y2 == IF h1 < minSize /\ movesY
              THEN original.y + original.height - minSize ELSE y1
        h2 == IF h1 < minSize THEN minSize ELSE h1
        x3 == Max(0, x2)
        y3 == Max(0, y2)
    IN  [original EXCEPT !.x = x3, !.y = y3,
                         !.width = Min(w2, imgWidth - x3),
                         !.height = Min(h2, imgHeight - y3)]

\* the bounds object resizeSelection hands to updateSelection: the whole copy
resizeUpdate(newBounds) == newBounds

resizeSelection(H, V, S, mouseX, mouseY) ==
    IF \/ H.currentSelection = NullRef
       \/ H.activeHandle = "null"
       \/ H.originalSelection = NullRef
    THEN S
    ELSE LET mouseImageCoords == canvasToImage(V, mouseX, mouseY)
             startImageCoords == canvasToImage(V, H.dragStartPos.x, H.dragStartPos.y)
             deltaX == mouseImageCoords.x - startImageCoords.x
             deltaY == mouseImageCoords.y - startImageCoords.y
             newBounds == resizeBounds(H.originalSelection, H.activeHandle, deltaX, deltaY,
                                       V.originalWidth, V.originalHeight)
         IN  updateSelection(S, Deref(H.currentSelection, S.selections).id,
                             resizeUpdate(newBounds))

\* the dragging branch of handleMouseMove: the bounds written to the selection
dragBounds(current, V, deltaX, deltaY) ==
    LET imageDeltaX == (deltaX * ScaleUnit) \div V.scale
        imageDeltaY == (deltaY * ScaleUnit) \div V.scale
        newX == current.x + imageDeltaX
        newY == current.y + imageDeltaY
    IN  [x |-> Max(0, Min(newX, V.originalWidth - current.width)),
         y |-> Max(0, Min(newY, V.originalHeight - current.height))]

handleMouseMove(H, V, S, x, y) ==
    IF ~hasImage(V) THEN World(H, V, S, FALSE)
    ELSE
    LET deltaX == x - H.dragStartPos.x
        deltaY == y - H.dragStartPos.y
        here == [x |-> x, y |-> y]
    IN  IF H.isPanning
        THEN World([H EXCEPT !.dragStartPos = here],
                   [V EXCEPT !.offsetX = V.offsetX + deltaX,
                             !.offsetY = V.offsetY + deltaY],
                   S, FALSE)
        ELSE IF H.isDrawing
        THEN World(H, V, S, FALSE)        \* drawTemporarySelection only paints
        ELSE IF H.isResizing /\ H.currentSelection # NullRef /\ H.activeHandle # "null"
        THEN World(H, V, resizeSelection(H, V, S, x, y), FALSE)
        ELSE IF H.isDragging /\ H.currentSelection # NullRef
        THEN LET current == Deref(H.currentSelection, S.selections)
             IN  World([H EXCEPT !.dragStartPos = here], V,
                       updateSelection(S, current.id, dragBounds(current, V, deltaX, deltaY)),
                       FALSE)
        ELSE World(H, V, S, FALSE)        \* updateCursor only sets the cursor

\* faulty variant: only the clamped size is tested
drawCommit_clampedSizeOnly(start, imageCoords, imgWidth, imgHeight) ==
    LET clampedStartX == Max(0, Min(Min(start.x, imageCoords.x), imgWidth))
        clampedStartY == Max(0, Min(Min(start.y, imageCoords.y), imgHeight))
        clampedEndX == Max(0, Min(Max(start.x, imageCoords.x), imgWidth))
        clampedEndY == Max(0, Min(Max(start.y, imageCoords.y), imgHeight))
    IN  IF clampedEndX - clampedStartX > 5 /\ clampedEndY - clampedStartY > 5
        THEN <<clampedStartX, clampedStartY, clampedEndX, clampedEndY>>
        ELSE Null

\* the drawing branch of handleMouseUp: the corners handed to createSelection,
\* or Null when the rectangle is discarded
drawCommit(start, imageCoords, imgWidth, imgHeight) ==
    LET startX == Min(start.x, imageCoords.x)
        startY == Min(start.y, imageCoords.y)
        endX == Max(start.x, imageCoords.x)
        endY == Max(start.y, imageCoords.y)
        width == endX - startX
        height == endY - startY
        clampedStartX == Max(0, Min(startX, imgWidth))
        clampedStartY == Max(0, Min(startY, imgHeight))
        clampedEndX == Max(0, Min(endX, imgWidth))
        clampedEndY == Max(0, Min(endY, imgHeight))
        clampedWidth == clampedEndX - clampedStartX
        clampedHeight == clampedEndY - clampedStartY
    IN  IF width > 10 /\ height > 10 /\ clampedWidth > 5 /\ clampedHeight > 5
        THEN <<clampedStartX, clampedStartY, clampedEndX, clampedEndY>>
        ELSE Null

handleMouseUp(H, V, S, x, y) ==
    IF H.isPanning
    THEN World([H EXCEPT !.isPanning = FALSE], V, S, FALSE)
    ELSE IF ~hasImage(V) THEN World(H, V, S, FALSE)
    ELSE IF H.isDrawing
    THEN LET corners == drawCommit(H.dragStartPos, canvasToImage(V, x, y),
                                   V.originalWidth, V.originalHeight)
             made == IF corners = Null
                     THEN Outcome(S.selections, S.activeSelectionId, FALSE, Undefined)
                     ELSE createSelection(S, corners[1], corners[2], corners[3], corners[4])
         IN  IF made.threw
             THEN \* the Error leaves the handler before it clears any flag
                  World(H, V, Store(made.selections, made.activeSelectionId), TRUE)
             ELSE World([H EXCEPT !.isDrawing = FALSE, !.currentSelection = NullRef],
                        V, Store(made.selections, made.activeSelectionId), FALSE)
    ELSE IF H.isResizing
    THEN World([H EXCEPT !.isResizing = FALSE, !.activeHandle = "null",
                         !.originalSelection = NullRef, !.currentSelection = NullRef],
               V, S, FALSE)
    ELSE IF H.isDragging
    THEN World([H EXCEPT !.isDragging = FALSE, !.currentSelection = NullRef], V, S, FALSE)
    ELSE World([H EXCEPT !.currentSelection = NullRef], V, S, FALSE)

switchToNextSelection(S, reverse) ==
    IF Len(S.selections) = 0 THEN S
    ELSE LET active == getActiveSelection(S.selections)
             \* selections.findIndex(s => s.id === activeSelection.id), 0-based
             currentIndex == FindIndexById(S.selections, S.selections[active].id) - 1
             nextIndex == IF active = 0 THEN 0
                          ELSE IF reverse
                          THEN (IF currentIndex > 0 THEN currentIndex - 1
                                ELSE Len(S.selections) - 1)
                          ELSE (IF currentIndex < Len(S.selections) - 1
                                THEN currentIndex + 1 ELSE 0)
         IN  setActiveSelection(S, S.selections[nextIndex + 1].id)

handleRightClick(H, V, S, x, y) ==
    LET clicked == findSelectionAtPoint(V, S.selections, x, y)
    IN  IF clicked # 0
        THEN World(H, V, setActiveSelection(S, S.selections[clicked].id), FALSE)
        ELSE World(H, V, S, FALSE)

\* deltaY > 0 zooms out by 0.9, otherwise in by 1.1
handleWheel(H, V, S, deltaYPositive, mouseX, mouseY) ==
    IF ~hasImage(V) THEN World(H, V, S, FALSE)
    ELSE IF mouseX < 0 \/ mouseX > CanvasWidth \/ mouseY < 0 \/ mouseY > CanvasHeight
    THEN World(H, V, S, FALSE)
    ELSE LET newScale == IF deltaYPositive THEN (V.scale * 9) \div 10
                         ELSE (V.scale * 11) \div 10
         IN  World(H, setScale(V, newScale, mouseX, mouseY), S, FALSE)

\* event.key with its modifiers, as handleKeyDown tells them apart
Keys == {"Ctrl+", "Ctrl-", "Ctrl0", "Ctrl1", "Escape", "Tab", "ShiftTab", "Delete", "Space"}

\* the Delete / Backspace branch, also ImageCropApp.deleteActiveSelection
deleteActive(H, V, S) ==
    LET active == getActiveSelection(S.selections)
        id == S.selections[active].id
    IN  IF active = 0 THEN World(H, V, S, FALSE)
        ELSE World([H EXCEPT !.currentSelection =
                        RefAfterSplice(H.currentSelection, S.selections,
                                       FindIndexById(S.selections, id))],
                   V, deleteSelection(S, id), FALSE)

handleKeyDown(H, V, S, key) ==
    IF ~hasImage(V) THEN World(H, V, S, FALSE)
    ELSE IF key = "Ctrl+" THEN World(H, zoomIn(V), S, FALSE)
    ELSE IF key = "Ctrl-" THEN World(H, zoomOut(V), S, FALSE)
    ELSE IF key = "Ctrl0" THEN World(H, resetView(V), S, FALSE)
    ELSE IF key = "Ctrl1" THEN World(H, setScaleKeepCentered(V, ScaleUnit), S, FALSE)
    ELSE IF key = "Escape"
    THEN World(cancelCurrentOperation(H), V, clearActiveSelection(S), FALSE)
    ELSE IF key = "Tab" THEN World(H, V, switchToNextSelection(S, FALSE), FALSE)
    ELSE IF key = "ShiftTab" THEN World(H, V, switchToNextSelection(S, TRUE), FALSE)
    ELSE IF key = "Delete" THEN deleteActive(H, V, S)
    ELSE IF key = "Space"
    THEN World(setMode(H, IF H.mode = "select" THEN "pan" ELSE "select"), V, S, FALSE)
    ELSE World(H, V, S, FALSE)

----------------------------------------------------------------------------
(* ImageCropApp operations *)

deleteSelectionById(H, V, S, selectionId) ==
    World([H EXCEPT !.currentSelection =
                RefAfterSplice(H.currentSelection, S.selections,
                               FindIndexById(S.selections, selectionId))],
          V, deleteSelection(S, selectionId), FALSE)

focusSelection(H, V, S, selectionId) ==
    LET index == FindIndexById(S.selections, selectionId)
        selection == S.selections[index]
        centerX == selection.x + selection.width \div 2
        centerY == selection.y + selection.height \div 2
        canvasCenter == imageToCanvas(V, centerX, centerY)
    IN  IF index = 0 THEN World(H, V, S, FALSE)
        ELSE World(H,
                   IF \/ canvasCenter.x < 0 \/ canvasCenter.x > CanvasWidth
                      \/ canvasCenter.y < 0 \/ canvasCenter.y > CanvasHeight
                   THEN [V EXCEPT
                            !.offsetX = CanvasWidth \div 2 - (centerX * V.scale) \div ScaleUnit,
                            !.offsetY = CanvasHeight \div 2 - (centerY * V.scale) \div ScaleUnit]
                   ELSE V,
                   setActiveSelection(S, selectionId), FALSE)

(* ExportManager.  exportAllSelections copies the array it is handed with   *)
(* [...selections]: a new array whose elements are the store's own objects. *)
(* What is done with the copy is the export step's business; the variants   *)
(* are the crop of the source, which only reads, and the three the          *)
(* repository's export tests run on such a copy.                            *)

ExportSteps == {"crop", "pop", "shift", "mark"}

\* [...selections]: position i of the copy refers to the store's i-th object
exportCopy(sels) == [i \in 1..Len(sels) |-> LiveRef(i)]

\* one element of the copy after the export step has been at it
exportStepOn(sel, step) ==
    IF step = "shift"
    THEN [sel EXCEPT !.x = sel.x + 10, !.y = sel.y + 10,
                     !.width = sel.width - 5, !.height = sel.height - 5]
    ELSE IF step = "mark"
    THEN [f \in DOMAIN sel \cup {"processed"} |->
            IF f = "processed" THEN TRUE ELSE sel[f]]
    ELSE sel

\* the store's array once the step has run over the elements of the copy;
\* pop() takes the last element off the copy first
exportWriteThrough(sels, copy, step) ==
    LET handed == IF step = "pop" THEN SubSeq(copy, 1, Len(copy) - 1) ELSE copy
        touched == {handed[i].index : i \in 1..Len(handed)}
    IN  [i \in 1..Len(sels) |->
            IF i \in touched THEN exportStepOn(sels[i], step) ELSE sels[i]]

\* confirmed: the export dialog was confirmed, not cancelled;
\* cropFails: cropSelection rejects, which the loop catches
exportAllSelections(S, V, step, confirmed, cropFails) ==
    IF Len(S.selections) = 0 \/ ~hasImage(V)
    THEN Outcome(S.selections, S.activeSelectionId, TRUE, Undefined)
    ELSE LET selectionsToExport == exportCopy(S.selections)
         IN  IF ~confirmed
             THEN Outcome(S.selections, S.activeSelectionId, TRUE, Undefined)
             ELSE Outcome(exportWriteThrough(S.selections, selectionsToExport, step),
                          S.activeSelectionId, FALSE,
                          IF cropFails THEN 0 ELSE Len(S.selections))

resetApplication(H, V, S) ==
    World(setMode(cancelCurrentOperation(
                    [H EXCEPT !.currentSelection =
                        RefAfterReset(H.currentSelection, S.selections)]), "select"),
          V, reset(S), FALSE)

----------------------------------------------------------------------------
(* The state machine *)

\* bounds of the model
MaxDrawn == 2       \* selections created by draw gestures
MaxLoads == 1       \* loadImage requests
MaxOverlap == 2     \* loadImage requests when loads may overlap
MaxSteps == 1       \* zoom requests, pan moves and drag / resize moves
MaxCreated == 3     \* selections a direct createSelection call may add to

\* the decoded sizes of the images a user loads
ImageSizes == {<<60, 40>>}

\* canvas positions of the pointer
Points == {<<72, 62>>, <<127, 80>>, <<150, 120>>}

TheStore == Store(selections, activeSelectionId)
TheImage ==
    [image |-> image, scale |-> scale, offsetX |-> offsetX, offsetY |-> offsetY,
     originalWidth |-> originalWidth, originalHeight |-> originalHeight,
     displayWidth |-> displayWidth, displayHeight |-> displayHeight]
TheHandler ==
    [mode |-> mode, isDrawing |-> isDrawing, isDragging |-> isDragging,
     isResizing |-> isResizing, isPanning |-> isPanning,
     dragStartPos |-> dragStartPos, activeHandle |-> activeHandle,
     currentSelection |-> currentSelection, originalSelection |-> originalSelection]

SetStore(S) ==
    /\ selections' = S.selections
    /\ activeSelectionId' = S.activeSelectionId
SetImage(V) ==
    /\ image' = V.image /\ scale' = V.scale
    /\ offsetX' = V.offsetX /\ offsetY' = V.offsetY
    /\ originalWidth' = V.originalWidth /\ originalHeight' = V.originalHeight
    /\ displayWidth' = V.displayWidth /\ displayHeight' = V.displayHeight
SetHandler(H) ==
    /\ mode' = H.mode /\ isDrawing' = H.isDrawing /\ isDragging' = H.isDragging
    /\ isResizing' = H.isResizing /\ isPanning' = H.isPanning
    /\ dragStartPos' = H.dragStartPos /\ activeHandle' = H.activeHandle
    /\ currentSelection' = H.currentSelection
    /\ originalSelection' = H.originalSelection

\* no direct call was made: the last step was an event or an application operation
NoCall == [op |-> "none", n |-> 0]
Call(op, n) == [op |-> op, n |-> n]

\* an event handler or application operation ran and left the world W
\* the world an event leaves, with a note of which event it was
ApplyAs(W, call) ==
    /\ SetHandler(W.h) /\ SetImage(W.v) /\ SetStore(W.s)
    /\ threw' = W.threw
    /\ ret' = Undefined
    /\ lastCall' = call

Apply(W) == ApplyAs(W, NoCall)

\* the state after `new ImageCropApp().init()`
Init ==
    /\ selections = <<>> /\ activeSelectionId = Null
    /\ image = NoImage.image /\ scale = NoImage.scale
    /\ offsetX = NoImage.offsetX /\ offsetY = NoImage.offsetY
    /\ originalWidth = NoImage.originalWidth /\ originalHeight = NoImage.originalHeight
    /\ displayWidth = NoImage.displayWidth /\ displayHeight = NoImage.displayHeight
    /\ mode = IdleHandler.mode
    /\ isDrawing = IdleHandler.isDrawing /\ isDragging = IdleHandler.isDragging
    /\ isResizing = IdleHandler.isResizing /\ isPanning = IdleHandler.isPanning
    /\ dragStartPos = IdleHandler.dragStartPos
    /\ activeHandle = IdleHandler.activeHandle
    /\ currentSelection = IdleHandler.currentSelection
    /\ originalSelection = IdleHandler.originalSelection
    /\ threw = FALSE /\ ret = Undefined /\ lastCall = NoCall
    /\ pending = 0 /\ loads = 0 /\ steps = 0 /\ drawn = 0
    /\ createdSinceReset = -1 /\ consecutiveCreates = -1

(* Pointer, wheel and keyboard events, as setupEventListeners wires them *)

MouseDown(p) ==
    /\ Apply(handleMouseDown(TheHandler, TheImage, TheStore, p[1], p[2]))
    /\ UNCHANGED <<boundVars, historyVars>>

\* a mouse move that pans the image or drags / resizes a selection
MovesSomething ==
    /\ image
    /\ \/ isPanning
       \/ ~isDrawing /\ isResizing /\ currentSelection # NullRef /\ activeHandle # "null"
       \/ ~isDrawing /\ isDragging /\ currentSelection # NullRef

MouseMove(p) ==
    /\ MovesSomething => steps < MaxSteps
    /\ Apply(handleMouseMove(TheHandler, TheImage, TheStore, p[1], p[2]))
    /\ steps' = IF MovesSomething THEN steps + 1 ELSE steps
    /\ UNCHANGED <<pending, loads, drawn, historyVars>>

MouseUp(p) ==
    LET W == handleMouseUp(TheHandler, TheImage, TheStore, p[1], p[2])
        created == Len(W.s.selections) > Len(selections)
    IN  /\ created => drawn < MaxDrawn
        /\ Apply(W)
        /\ drawn' = IF created THEN drawn + 1 ELSE drawn
        /\ UNCHANGED <<pending, loads, steps, historyVars>>

RightClick(p) ==
    /\ Apply(handleRightClick(TheHandler, TheImage, TheStore, p[1], p[2]))
    /\ UNCHANGED <<boundVars, historyVars>>

Wheel(p, deltaYPositive) ==
    /\ image
    /\ Apply(handleWheel(TheHandler, TheImage, TheStore, deltaYPositive, p[1], p[2]))
    /\ steps' = steps + 1
    /\ UNCHANGED <<pending, loads, drawn, historyVars>>

ZoomKeys == {"Ctrl+", "Ctrl-", "Ctrl0", "Ctrl1"}

KeyDown(key) ==
    /\ key \in ZoomKeys /\ image => steps < MaxSteps
    /\ Apply(handleKeyDown(TheHandler, TheImage, TheStore, key))
    /\ steps' = IF key \in ZoomKeys /\ image THEN steps + 1 ELSE steps
    /\ UNCHANGED <<pending, loads, drawn, historyVars>>

(* Buttons and the selection list *)

ModeButton(newMode) ==
    /\ Apply(World(setMode(TheHandler, newMode), TheImage, TheStore, FALSE))
    /\ UNCHANGED <<boundVars, historyVars>>

ListDelete(n) ==
    /\ Apply(deleteSelectionById(TheHandler, TheImage, TheStore, SelectionId(n)))
    /\ UNCHANGED <<boundVars, historyVars>>

ListFocus(n) ==
    /\ Apply(focusSelection(TheHandler, TheImage, TheStore, SelectionId(n)))
    /\ UNCHANGED <<boundVars, historyVars>>

MenuDelete ==
    /\ Apply(deleteActive(TheHandler, TheImage, TheStore))
    /\ UNCHANGED <<boundVars, historyVars>>

(* Image loading: ImageCropApp.loadImage and ImageManager.loadImage *)

\* a file is chosen; `valid` says whether it passes the type, size and name checks
LoadImage(valid) ==
    /\ LET W == resetApplication(TheHandler, TheImage, TheStore)
       IN  Apply([W EXCEPT !.v = IF valid THEN resetImageState(TheImage) ELSE TheImage])
    /\ pending' = IF valid THEN pending + 1 ELSE pending
    /\ loads' = loads + 1
    /\ UNCHANGED <<steps, drawn, historyVars>>

\* img.onload of a pending load, for a decoded image of the given size
LoadComplete(size) ==
    /\ pending > 0
    /\ Apply(World(TheHandler,
                   fitImageToCanvas([TheImage EXCEPT !.image = TRUE,
                                                     !.originalWidth = size[1],
                                                     !.originalHeight = size[2]]),
                   TheStore, FALSE))
    /\ pending' = pending - 1
    /\ UNCHANGED <<loads, steps, drawn, historyVars>>

\* img.onerror, reader.onerror or a zero-sized image: the promise is rejected
LoadFailed ==
    /\ pending > 0
    /\ Apply(World(TheHandler, TheImage, TheStore, FALSE))
    /\ pending' = pending - 1
    /\ UNCHANGED <<loads, steps, drawn, historyVars>>

Next ==
    \/ \E p \in Points : MouseDown(p)
    \/ \E p \in Points : MouseMove(p)
    \/ \E p \in Points : MouseUp(p)
    \/ \E p \in Points : RightClick(p)
    \/ \E p \in Points, d \in BOOLEAN : steps < MaxSteps /\ Wheel(p, d)
    \/ \E key \in Keys : KeyDown(key)
    \/ \E m \in {"pan", "select"} : ModeButton(m)
    \/ \E n \in 1..(MaxDrawn + 1) : ListDelete(n)
    \/ \E n \in 1..(MaxDrawn + 1) : ListFocus(n)
    \/ MenuDelete
    \/ \E valid \in BOOLEAN : loads < MaxLoads /\ LoadImage(valid)
    \/ \E size \in ImageSizes : LoadComplete(size)
    \/ LoadFailed

Spec == Init /\ [][Next]_vars

----------------------------------------------------------------------------
(* Gestures on their own: one image is loaded, the pointer visits three     *)
(* positions on the diagonal of the image (so that two selections can be    *)
(* drawn side by side), and the keys that act on selections are pressed at  *)
(* any moment, in the middle of a gesture too.                              *)

DiagonalPoints == {<<72, 62>>, <<100, 80>>, <<127, 97>>}

\* the keys that change the store or the gesture
GestureKeys == {"Tab", "Delete", "Escape"}

NextGesture ==
    \/ loads < MaxLoads /\ LoadImage(TRUE)
    \/ \E size \in ImageSizes : LoadComplete(size)
    \/ \E p \in DiagonalPoints : MouseDown(p)
    \/ \E p \in DiagonalPoints : MouseMove(p)
    \/ \E p \in DiagonalPoints : MouseUp(p)
    \/ \E key \in GestureKeys : KeyDown(key)
    \/ \E n \in 1..MaxDrawn : ListDelete(n)

SpecGesture == Init /\ [][NextGesture]_vars

----------------------------------------------------------------------------
(* Overlapping loads: a second file is chosen while the first one is still  *)
(* being read, the two images differ in size, and the user draws and        *)
(* resizes between the two completions.                                     *)

ReloadSizes == {<<60, 40>>, <<40, 40>>}

ReloadPoints == {<<100, 62>>, <<110, 62>>, <<127, 97>>}

NextReload ==
    \/ loads < MaxOverlap /\ LoadImage(TRUE)
    \/ \E size \in ReloadSizes : LoadComplete(size)
    \/ \E p \in ReloadPoints : MouseDown(p)
    \/ \E p \in ReloadPoints : MouseMove(p)
    \/ \E p \in ReloadPoints : MouseUp(p)

SpecReload == Init /\ [][NextReload]_vars

(* The same with a second image that is lower than the first, and a point  *)
(* in the middle of the image to take a selection by.                      *)

DragSizes == {<<60, 40>>, <<60, 30>>}

DragPoints == {<<80, 62>>, <<100, 80>>, <<120, 98>>}

NextDrag ==
    \/ loads < MaxOverlap /\ LoadImage(TRUE)
    \/ \E size \in DragSizes : LoadComplete(size)
    \/ \E p \in DragPoints : MouseDown(p)
    \/ \E p \in DragPoints : MouseMove(p)
    \/ \E p \in DragPoints : MouseUp(p)

SpecDrag == Init /\ [][NextDrag]_vars

(* One image and draw and resize gestures that reach the right and bottom  *)
(* edges of the image and the canvas beyond them.                          *)

ResizePoints == {<<100, 62>>, <<122, 62>>, <<130, 100>>, <<150, 120>>}

NextResize ==
    \/ loads < MaxLoads /\ LoadImage(TRUE)
    \/ \E size \in ImageSizes : LoadComplete(size)
    \/ \E p \in ResizePoints : MouseDown(p)
    \/ \E p \in ResizePoints : MouseMove(p)
    \/ \E p \in ResizePoints : MouseUp(p)

SpecResize == Init /\ [][NextResize]_vars

----------------------------------------------------------------------------
(* The store on its own: a caller (the test suites of script.js do this)    *)
(* calls the public operations of a SelectionManager directly.             *)

\* corner pairs handed to createSelection: <<startX, startY, endX, endY>>
CreateArgs == {<<0, 0, 4, 3>>, <<9, 8, 5, 6>>, <<0, 0, 0, 5>>, <<2, 2, 7, 2>>}

\* bounds objects handed to updateSelection
UpdateArgs == {[x |-> 1, width |-> 6]}

\* the numbers of the ids a caller passes, one more than can be in the store
CallerIds == 1..(MaxCreated + 1)

\* a direct call ended with the outcome O
ApplyCall(O, call) ==
    /\ SetStore(Store(O.selections, O.activeSelectionId))
    /\ threw' = O.threw
    /\ ret' = O.ret
    /\ lastCall' = call
    /\ UNCHANGED <<imageVars, handlerVars, boundVars>>

StoreCreate(a) ==
    LET O == createSelection(TheStore, a[1], a[2], a[3], a[4])
    IN  /\ Len(selections) < MaxCreated
        /\ createdSinceReset < MaxCreated
        /\ ApplyCall(O, Call("createSelection", 0))
        /\ createdSinceReset' = IF ~O.threw /\ createdSinceReset >= 0
                                THEN createdSinceReset + 1 ELSE createdSinceReset
        /\ consecutiveCreates' = IF ~O.threw /\ consecutiveCreates >= 0
                                 THEN consecutiveCreates + 1 ELSE consecutiveCreates

StoreUpdate(n, bounds) ==
    LET S == updateSelection(TheStore, SelectionId(n), bounds)
    IN  /\ ApplyCall(Outcome(S.selections, S.activeSelectionId, FALSE, Undefined),
                     Call("updateSelection", n))
        /\ UNCHANGED historyVars

StoreDelete(n) ==
    LET S == deleteSelection(TheStore, SelectionId(n))
    IN  /\ ApplyCall(Outcome(S.selections, S.activeSelectionId, FALSE, Undefined),
                     Call("deleteSelection", n))
        /\ consecutiveCreates' = IF Len(S.selections) # Len(selections)
                                 THEN -1 ELSE consecutiveCreates
        /\ UNCHANGED createdSinceReset

StoreSetActive(n) ==
    LET S == setActiveSelection(TheStore, SelectionId(n))
    IN  /\ ApplyCall(Outcome(S.selections, S.activeSelectionId, FALSE, Undefined),
                     Call("setActiveSelection", n))
        /\ UNCHANGED historyVars

StoreClearActive ==
    LET S == clearActiveSelection(TheStore)
    IN  /\ ApplyCall(Outcome(S.selections, S.activeSelectionId, FALSE, Undefined),
                     Call("clearActiveSelection", 0))
        /\ UNCHANGED historyVars

StoreReset ==
    LET S == reset(TheStore)
    IN  /\ ApplyCall(Outcome(S.selections, S.activeSelectionId, FALSE, Undefined),
                     Call("reset", 0))
        /\ createdSinceReset' = 0
        /\ consecutiveCreates' = 0

NextStore ==
    \/ \E a \in CreateArgs : StoreCreate(a)
    \/ \E n \in CallerIds, bounds \in UpdateArgs : StoreUpdate(n, bounds)
    \/ \E n \in CallerIds : StoreDelete(n)
    \/ \E n \in CallerIds : StoreSetActive(n)
    \/ StoreClearActive
    \/ StoreReset

SpecStore == Init /\ [][NextStore]_vars

----------------------------------------------------------------------------
(* The application with the events that arrive while no image is loaded   *)
(* noted in lastCall.                                                      *)

MouseDownWithoutImage(p) ==
    /\ ~image
    /\ ApplyAs(handleMouseDown(TheHandler, TheImage, TheStore, p[1], p[2]),
               Call("mousedown", 0))
    /\ UNCHANGED <<boundVars, historyVars>>

MouseMoveWithoutImage(p) ==
    /\ ~image
    /\ ApplyAs(handleMouseMove(TheHandler, TheImage, TheStore, p[1], p[2]),
               Call("mousemove", 0))
    /\ UNCHANGED <<boundVars, historyVars>>

MouseUpWithoutImage(p) ==
    /\ ~image
    /\ ApplyAs(handleMouseUp(TheHandler, TheImage, TheStore, p[1], p[2]),
               Call("mouseup", 0))
    /\ UNCHANGED <<boundVars, historyVars>>

WheelWithoutImage(p, deltaYPositive) ==
    /\ ~image
    /\ ApplyAs(handleWheel(TheHandler, TheImage, TheStore, deltaYPositive, p[1], p[2]),
               Call("wheel", 0))
    /\ UNCHANGED <<boundVars, historyVars>>

KeyDownWithoutImage(key) ==
    /\ ~image
    /\ ApplyAs(handleKeyDown(TheHandler, TheImage, TheStore, key), Call("keydown", 0))
    /\ UNCHANGED <<boundVars, historyVars>>

EventWithoutImage ==
    \/ \E p \in Points : MouseDownWithoutImage(p)
    \/ \E p \in Points : MouseMoveWithoutImage(p)
    \/ \E p \in Points : MouseUpWithoutImage(p)
    \/ \E p \in Points, deltaYPositive \in BOOLEAN : WheelWithoutImage(p, deltaYPositive)
    \/ \E key \in Keys : KeyDownWithoutImage(key)

NextNoImage == Next \/ EventWithoutImage

SpecNoImage == Init /\ [][NextNoImage]_vars

----------------------------------------------------------------------------
(* The application with cancelCurrentOperation() called at any moment.     *)

\* the gesture in progress: 0 none, 1 drawing, 2 dragging, 3 resizing, 4 panning
GestureInProgress ==
    IF isPanning THEN 4
    ELSE IF isResizing THEN 3
    ELSE IF isDragging THEN 2
    ELSE IF isDrawing THEN 1
    ELSE 0

\* the call, noted with the gesture it interrupts
CancelCurrentOperation ==
    /\ ApplyAs(World(cancelCurrentOperation(TheHandler), TheImage, TheStore, FALSE),
               Call("cancelCurrentOperation", GestureInProgress))
    /\ UNCHANGED <<boundVars, historyVars>>

NextCancel == Next \/ CancelCurrentOperation

SpecCancel == Init /\ [][NextCancel]_vars

----------------------------------------------------------------------------
(* Panning: one image, the mode buttons and pointer positions far apart on *)
(* the canvas.                                                             *)

PanPoints == {<<10, 80>>, <<100, 20>>, <<190, 150>>}

NextPan ==
    \/ loads < MaxLoads /\ LoadImage(TRUE)
    \/ \E size \in ImageSizes : LoadComplete(size)
    \/ \E m \in {"pan", "select"} : ModeButton(m)
    \/ \E p \in PanPoints : MouseDown(p)
    \/ \E p \in PanPoints : MouseMove(p)
    \/ \E p \in PanPoints : MouseUp(p)
    \/ \E p \in PanPoints, deltaYPositive \in BOOLEAN :
            steps < MaxSteps /\ Wheel(p, deltaYPositive)

SpecPan == Init /\ [][NextPan]_vars

----------------------------------------------------------------------------
(* Export: a loaded image, a store filled by createSelection, and the      *)
(* export button.                                                          *)

\* exports in one run
MaxExports == 2

\* ImageCropApp.exportSelections: the promise's rejection is caught and shown
Export(step, confirmed, cropFails) ==
    LET O == exportAllSelections(TheStore, TheImage, step, confirmed, cropFails)
    IN  /\ Len(selections) > 0
        /\ SetStore(Store(O.selections, O.activeSelectionId))
        /\ threw' = FALSE
        /\ ret' = [rejected |-> O.threw, count |-> O.ret]
        /\ lastCall' = Call("exportSelections", 0)
        /\ steps' = steps + 1
        /\ UNCHANGED <<imageVars, handlerVars, pending, loads, drawn, historyVars>>

NextExport ==
    \/ loads < MaxLoads /\ LoadImage(TRUE)
    \/ \E size \in ImageSizes : LoadComplete(size)
    \/ \E a \in CreateArgs : StoreCreate(a)
    \/ \E n \in CallerIds : StoreSetActive(n)
    \/ \E step \in ExportSteps, confirmed \in BOOLEAN, cropFails \in BOOLEAN :
            steps < MaxExports /\ Export(step, confirmed, cropFails)

SpecExport == Init /\ [][NextExport]_vars

----------------------------------------------------------------------------
(* The viewport alone: one image, the zoom toolbar, the wheel and the      *)
(* ImageManager zoom methods called with arbitrary requests.               *)

\* zoom operations (toolbar, wheel, method calls) in one run of the viewport
MaxZooms == 4

ViewSizes == {<<60, 40>>, <<400, 300>>, <<2000, 1500>>}
ViewPoints == {<<100, 80>>, <<150, 120>>}

\* the values of the zoomPreset options, in percent
PresetLevels == {50, 200}
\* the levels setZoomLevel is called with, in percent
ZoomLevels == {-100, 5, 500, 1000}
\* the scales setScale is called with
RequestedScales == {0, minScale + 5, ScaleUnit, maxScale - 5, maxScale + ScaleUnit}

\* the same, with a value noted in ret
ApplyViewNoting(V, call, value) ==
    /\ image
    /\ SetImage(V)
    /\ ret' = value
    /\ lastCall' = call
    /\ UNCHANGED <<storeVars, handlerVars, threw, pending, loads, drawn, historyVars>>

\* a call that touches the viewport only; the caller says what becomes of steps
ApplyView(V, call) == ApplyViewNoting(V, call, Undefined)

\* one more zoom operation of the run
ZoomBudget == steps < MaxZooms /\ steps' = steps + 1

ZoomInButton == ApplyView(zoomIn(TheImage), Call("zoomIn", 0))
ZoomOutButton == ApplyView(zoomOut(TheImage), Call("zoomOut", 0))
ResetZoomButton == ApplyView(setScaleKeepCentered(TheImage, ScaleUnit), Call("resetZoom", 0))
FitZoomButton == ApplyView(resetView(TheImage), Call("resetView", 0))
ZoomPreset(level) ==
    ApplyView(setScaleKeepCentered(TheImage, (level * ScaleUnit) \div 100),
              Call("zoomPreset", level))
SetZoomLevel(level, keepCentered) ==
    ApplyView(setZoomLevel(TheImage, level, keepCentered), Call("setZoomLevel", level))
SetScale(requested) ==
    ApplyView(setScaleDefaultCenter(TheImage, requested), Call("setScale", requested))

NextView ==
    \/ loads < MaxLoads /\ LoadImage(TRUE)
    \/ \E size \in ViewSizes : LoadComplete(size)
    \/ ZoomBudget /\ ZoomInButton
    \/ ZoomBudget /\ ZoomOutButton
    \/ ZoomBudget /\ ResetZoomButton
    \/ ZoomBudget /\ FitZoomButton
    \/ \E level \in PresetLevels : ZoomBudget /\ ZoomPreset(level)
    \/ \E level \in ZoomLevels, keepCentered \in BOOLEAN :
            ZoomBudget /\ SetZoomLevel(level, keepCentered)
    \/ \E requested \in RequestedScales : ZoomBudget /\ SetScale(requested)
    \/ \E p \in ViewPoints, deltaYPositive \in BOOLEAN : steps < MaxZooms /\ Wheel(p, deltaYPositive)

SpecView == Init /\ [][NextView]_vars

(* The coordinate conversions called on the viewports that loading,        *)
(* zooming and the wheel produce.                                          *)

CanvasPoints == {<<0, 0>>, <<73, 61>>, <<150, 120>>}
ImagePoints == {<<0, 0>>, <<7, 13>>, <<-3, 60>>}

\* imageToCanvas(canvasToImage(p)) for a canvas point p
ConvertCanvasPoint(p) ==
    LET q == canvasToImageExact(TheImage, RatInt(p[1]), RatInt(p[2]))
    IN  /\ image
        /\ ret' = [from |-> [x |-> RatInt(p[1]), y |-> RatInt(p[2])],
                   to |-> q,
                   back |-> imageToCanvasExact(TheImage, q.x, q.y)]
        /\ lastCall' = Call("canvasToImage", 0)
        /\ UNCHANGED <<storeVars, imageVars, handlerVars, threw, boundVars, historyVars>>

\* canvasToImage(imageToCanvas(q)) for an image point q
ConvertImagePoint(q) ==
    LET p == imageToCanvasExact(TheImage, RatInt(q[1]), RatInt(q[2]))
    IN  /\ image
        /\ ret' = [from |-> [x |-> RatInt(q[1]), y |-> RatInt(q[2])],
                   to |-> p,
                   back |-> canvasToImageExact(TheImage, p.x, p.y)]
        /\ lastCall' = Call("imageToCanvas", 0)
        /\ UNCHANGED <<storeVars, imageVars, handlerVars, threw, boundVars, historyVars>>

NextConvert ==
    \/ loads < MaxLoads /\ LoadImage(TRUE)
    \/ \E size \in ViewSizes : LoadComplete(size)
    \/ ZoomBudget /\ ZoomInButton
    \/ \E level \in ZoomLevels, keepCentered \in BOOLEAN :
            ZoomBudget /\ SetZoomLevel(level, keepCentered)
    \/ \E p \in ViewPoints, deltaYPositive \in BOOLEAN : steps < MaxZooms /\ Wheel(p, deltaYPositive)
    \/ \E p \in CanvasPoints : ConvertCanvasPoint(p)
    \/ \E q \in ImagePoints : ConvertImagePoint(q)

SpecConvert == Init /\ [][NextConvert]_vars

(* The zoom-out button pressed again and again on a loaded image.  The     *)
(* browser delivers every click and every completed load, hence the weak   *)
(* fairness; the clicks are not counted, a click that changes nothing      *)
(* leaves the state as it is.                                              *)

ZoomSizes == {<<w, 100>> : w \in 170..185}

NextZoomOut ==
    \/ loads < MaxLoads /\ LoadImage(TRUE)
    \/ \E size \in ZoomSizes : LoadComplete(size)
    \/ ZoomOutButton /\ UNCHANGED steps

SpecZoomOut == Init /\ [][NextZoomOut]_vars /\ WF_vars(NextZoomOut)

----------------------------------------------------------------------------
(* The gestures, in select and in pan mode, with the Escape key noted in   *)
(* lastCall together with the gesture it interrupts.                       *)

EscapeKey ==
    /\ image
    /\ ApplyAs(handleKeyDown(TheHandler, TheImage, TheStore, "Escape"),
               Call("Escape", GestureInProgress))
    /\ UNCHANGED <<boundVars, historyVars>>

NextEscape ==
    \/ NextGesture
    \/ \E m \in {"pan", "select"} : ModeButton(m)
    \/ EscapeKey

SpecEscape == Init /\ [][NextEscape]_vars

----------------------------------------------------------------------------
(* Narrow selections: the image is zoomed in with the toolbar button, a    *)
(* selection is drawn past the left edge of the image, and its handles are *)
(* far enough apart on the canvas for the top one to be grabbed.           *)

\* the scale from which the zoom-in button is not pressed any more
MaxEdgeScale == 17280

EdgePoints == {<<60, 60>>, <<30, 110>>, <<53, 58>>, <<53, 70>>}

NextEdge ==
    \/ loads < MaxLoads /\ LoadImage(TRUE)
    \/ \E size \in ImageSizes : LoadComplete(size)
    \/ scale < MaxEdgeScale /\ ZoomInButton /\ UNCHANGED steps
    \/ \E p \in EdgePoints : MouseDown(p)
    \/ \E p \in EdgePoints : MouseMove(p)
    \/ \E p \in EdgePoints : MouseUp(p)

SpecEdge == Init /\ [][NextEdge]_vars

----------------------------------------------------------------------------
(* The handle hit test called on the selections that draw gestures create, *)
(* at the scales the zoom buttons produce.                                 *)

\* pointer positions around the top-left corner of the selections and
\* towards the middle of their top and left edges
HitCoordsX == {68, 72, 77, 86}
HitCoordsY == {58, 62, 67, 71}

\* the two corners the selections are drawn between
HitDrawPoints == {<<72, 62>>, <<100, 80>>}

\* getResizeHandle(x, y, selection) for a selection of the store
HitTest(x, y, i) ==
    /\ image
    /\ ret' = [point |-> [x |-> x, y |-> y],
               selection |-> selections[i],
               handle |-> getResizeHandle(TheImage, x, y, selections[i])]
    /\ lastCall' = Call("getResizeHandle", i)
    /\ UNCHANGED <<storeVars, imageVars, handlerVars, threw, boundVars, historyVars>>

NextHandle ==
    \/ loads < MaxLoads /\ LoadImage(TRUE)
    \/ \E size \in ImageSizes : LoadComplete(size)
    \/ \E p \in HitDrawPoints : MouseDown(p)
    \/ \E p \in HitDrawPoints : MouseUp(p)
    \/ ZoomBudget /\ ZoomInButton
    \/ ZoomBudget /\ ZoomOutButton
    \/ \E x \in HitCoordsX, y \in HitCoordsY, i \in 1..Len(selections) : HitTest(x, y, i)

SpecHandle == Init /\ [][NextHandle]_vars

----------------------------------------------------------------------------
(* Interrupted gestures: the mode is switched (toolbar buttons, Space key)  *)
(* or the application is reset (a file is chosen) at any moment, in the     *)
(* middle of a gesture too.  lastCall notes the interruption with the       *)
(* gesture it interrupted, and then the mouse moves and mouse ups that      *)
(* follow it, until the next mouse down.                                    *)

Interrupted == lastCall.op \in {"interrupt", "afterInterrupt"}

AfterInterrupt == IF Interrupted THEN Call("afterInterrupt", lastCall.n) ELSE NoCall

SwitchMode(newMode) ==
    /\ ApplyAs(World(setMode(TheHandler, newMode), TheImage, TheStore, FALSE),
               Call("interrupt", GestureInProgress))
    /\ UNCHANGED <<boundVars, historyVars>>

SpaceKey ==
    /\ image
    /\ ApplyAs(handleKeyDown(TheHandler, TheImage, TheStore, "Space"),
               Call("interrupt", GestureInProgress))
    /\ UNCHANGED <<boundVars, historyVars>>

\* a file that fails the checks of ImageManager.loadImage is chosen: the
\* application is reset and the load is rejected
ResetApplication ==
    /\ loads < MaxOverlap
    /\ ApplyAs(resetApplication(TheHandler, TheImage, TheStore),
               Call("interrupt", GestureInProgress))
    /\ loads' = loads + 1
    /\ UNCHANGED <<pending, steps, drawn, historyVars>>

InterruptedMouseMove(p) ==
    /\ MovesSomething => steps < MaxSteps
    /\ ApplyAs(handleMouseMove(TheHandler, TheImage, TheStore, p[1], p[2]),
               AfterInterrupt)
    /\ steps' = IF MovesSomething THEN steps + 1 ELSE steps
    /\ UNCHANGED <<pending, loads, drawn, historyVars>>

InterruptedMouseUp(p) ==
    LET W == handleMouseUp(TheHandler, TheImage, TheStore, p[1], p[2])
        created == Len(W.s.selections) > Len(selections)
    IN  /\ created => drawn < MaxDrawn
        /\ ApplyAs(W, AfterInterrupt)
        /\ drawn' = IF created THEN drawn + 1 ELSE drawn
        /\ UNCHANGED <<pending, loads, steps, historyVars>>

NextInterrupt ==
    \/ loads < MaxLoads /\ LoadImage(TRUE)
    \/ \E size \in ImageSizes : LoadComplete(size)
    \/ \E p \in DiagonalPoints : MouseDown(p)
    \/ \E p \in DiagonalPoints : InterruptedMouseMove(p)
    \/ \E p \in DiagonalPoints : InterruptedMouseUp(p)
    \/ \E m \in {"pan", "select"} : SwitchMode(m)
    \/ SpaceKey
    \/ ResetApplication

SpecInterrupt == Init /\ [][NextInterrupt]_vars

----------------------------------------------------------------------------
(* Centred zoom: one image, setScale to reach scales next to the bounds,    *)
(* and setScaleKeepCentered / setZoomLevel called with requests below,      *)
(* inside and above the range and within the epsilon of the current scale.  *)

\* the scales setScaleKeepCentered is called with
CenteredScales ==
    {0, minScale, minScale + 9, minScale + 14, ScaleUnit - 6, ScaleUnit,
     maxScale - 14, maxScale, maxScale + ScaleUnit}
\* the levels setZoomLevel is called with, in percent
CenteredLevels == {10, 11, 33, 100, 499, 500}

SetScaleKeepCentered(requested) ==
    ApplyView(setScaleKeepCentered(TheImage, requested),
              Call("setScaleKeepCentered", requested))

NextCentered ==
    \/ loads < MaxLoads /\ LoadImage(TRUE)
    \/ \E size \in ViewSizes : LoadComplete(size)
    \/ \E requested \in RequestedScales : ZoomBudget /\ SetScale(requested)
    \/ \E requested \in CenteredScales : ZoomBudget /\ SetScaleKeepCentered(requested)
    \/ \E level \in CenteredLevels : ZoomBudget /\ SetZoomLevel(level, TRUE)

SpecCentered == Init /\ [][NextCentered]_vars

----------------------------------------------------------------------------
(* Zoom about an anchor: one image, the wheel at several points of the      *)
(* canvas and setScale with and without an anchor.  ret holds the image     *)
(* point under the anchor before and after the call, in exact arithmetic.   *)

AnchorPoints == {<<80, 70>>, <<127, 97>>}
AnchorScales == {ScaleUnit \div 2, ScaleUnit, 2 * ScaleUnit}

\* the wheel is turned with the pointer at p
AnchoredWheel(p, deltaYPositive) ==
    LET newScale == IF deltaYPositive THEN (scale * 9) \div 10 ELSE (scale * 11) \div 10
    IN  ApplyViewNoting(handleWheel(TheHandler, TheImage, TheStore, deltaYPositive,
                                    p[1], p[2]).v,
                        Call("setScaleAt", newScale),
                        anchorUnderSetScale(TheImage, newScale, p[1], p[2]))

\* setScale(requested, p.x, p.y)
SetScaleAt(requested, p) ==
    ApplyViewNoting(setScale(TheImage, requested, p[1], p[2]),
                    Call("setScaleAt", requested),
                    anchorUnderSetScale(TheImage, requested, p[1], p[2]))

\* setScale(requested): the anchor is the centre of the canvas
SetScaleAtCenter(requested) ==
    ApplyViewNoting(setScaleDefaultCenter(TheImage, requested),
                    Call("setScaleAt", requested),
                    anchorUnderSetScale(TheImage, requested,
                                        CanvasWidth \div 2, CanvasHeight \div 2))

NextAnchor ==
    \/ loads < MaxLoads /\ LoadImage(TRUE)
    \/ \E size \in ViewSizes : LoadComplete(size)
    \/ \E p \in AnchorPoints, deltaYPositive \in BOOLEAN :
            ZoomBudget /\ AnchoredWheel(p, deltaYPositive)
    \/ \E requested \in AnchorScales, p \in AnchorPoints :
            ZoomBudget /\ SetScaleAt(requested, p)
    \/ \E requested \in AnchorScales : ZoomBudget /\ SetScaleAtCenter(requested)

SpecAnchor == Init /\ [][NextAnchor]_vars

----------------------------------------------------------------------------
(* The position constraint: one image, zoomed with the toolbar buttons and  *)
(* panned with the pointer in pan mode, and constrainImagePosition() called *)
(* after any of these.                                                      *)

\* zoom operations and mouse moves in one run
MaxConstrainSteps == 2

ConstrainSizes == {<<60, 40>>, <<400, 300>>}

ConstrainBudget == steps < MaxConstrainSteps /\ steps' = steps + 1

\* a mouse move, counted in the same budget as the zoom operations
BudgetedMouseMove(p) ==
    /\ steps < MaxConstrainSteps
    /\ Apply(handleMouseMove(TheHandler, TheImage, TheStore, p[1], p[2]))
    /\ steps' = steps + 1
    /\ UNCHANGED <<pending, loads, drawn, historyVars>>

ConstrainImagePosition ==
    ApplyView(constrainImagePosition(TheImage), Call("constrainImagePosition", 0))

NextConstrain ==
    \/ loads < MaxLoads /\ LoadImage(TRUE)
    \/ \E size \in ConstrainSizes : LoadComplete(size)
    \/ ModeButton("pan")
    \/ \E p \in PanPoints : mode = "pan" /\ MouseDown(p)
    \/ \E p \in PanPoints : BudgetedMouseMove(p)
    \/ \E p \in PanPoints : MouseUp(p)
    \/ ConstrainBudget /\ ZoomInButton
    \/ ConstrainBudget /\ ZoomOutButton
    \/ ConstrainImagePosition /\ UNCHANGED steps

SpecConstrain == Init /\ [][NextConstrain]_vars

----------------------------------------------------------------------------
(* The zoom state: the zoom-out button pressed any number of times on a     *)
(* loaded image, and setScale called with the two bounds and with 1.        *)

\* the scales the zoom state test calls setScale with
BoundScales == {minScale, ScaleUnit, maxScale}

NextZoomState ==
    \/ loads < MaxLoads /\ LoadImage(TRUE)
    \/ \E size \in ZoomSizes : LoadComplete(size)
    \/ ZoomOutButton /\ UNCHANGED steps
    \/ \E requested \in BoundScales : SetScale(requested) /\ UNCHANGED steps

SpecZoomState == Init /\ [][NextZoomState]_vars

----------------------------------------------------------------------------
(* A run of performExport: a loaded image, a store filled by                *)
(* createSelection, and the loop over the array that getAllSelections()     *)
(* returns.  The run gives way to the user's events where it awaits: while  *)
(* a file is being written (toBlob, the save, the retry) and, in folder     *)
(* mode, during the delay between two files.  ret holds the locals of the   *)
(* run: the index i, the two counters, the selection of the iteration in    *)
(* progress, and the array `selections`, which is the store's own array     *)
(* until reset() replaces that by a new one.                                *)

\* x, y, width, height of a selection
BoundsOf(sel) == <<sel.x, sel.y, sel.width, sel.height>>

\* a run has started and has not come to its end
InExport == lastCall.op = "performExport" /\ ~ret.finished

\* the array the loop runs over
ExportArray == IF ret.alias THEN selections ELSE ret.array

\* the loop condition and what follows it without waiting: the selection of
\* the next iteration is taken from the array and its export begins, or the
\* loop ends and the result is reported
exportLoop(R, array) ==
    IF R.i < Len(array)
    THEN [R EXCEPT !.current = BoundsOf(array[R.i + 1]), !.waiting = FALSE]
    ELSE [R EXCEPT !.waiting = FALSE, !.finished = TRUE,
                   !.success = (R.exportCount = Len(array))]

\* the export dialog is confirmed: performExport starts; folder: config.method
PerformExport(folder) ==
    /\ image /\ Len(selections) > 0
    /\ ~InExport
    /\ steps < MaxExports
    /\ ret' = exportLoop(
                 [i |-> 0, exportCount |-> 0, failedCount |-> 0, folder |-> folder,
                  alias |-> TRUE, array |-> <<>>,
                  atStart |-> [k \in 1..Len(selections) |-> BoundsOf(selections[k])],
                  current |-> <<>>, waiting |-> FALSE,
                  handled |-> <<>>, finished |-> FALSE, success |-> FALSE],
                 selections)
    /\ lastCall' = Call("performExport", 0)
    /\ threw' = FALSE
    /\ steps' = steps + 1
    /\ UNCHANGED <<storeVars, imageVars, handlerVars, pending, loads, drawn, historyVars>>

\* the export of the current selection settles; ok: the file was written, at
\* the first attempt, the retry or the download fallback
ExportSettles(ok) ==
    LET R == [ret EXCEPT
                !.exportCount = IF ok THEN @ + 1 ELSE @,
                !.failedCount = IF ok THEN @ ELSE @ + 1,
                !.handled = Append(@, [index |-> ret.i + 1, bounds |-> ret.current,
                                       ok |-> ok])]
    IN  /\ InExport /\ ~ret.waiting
        /\ ret' = IF ok /\ ret.folder /\ ret.i < Len(ExportArray) - 1
                  THEN [R EXCEPT !.waiting = TRUE]
                  ELSE exportLoop([R EXCEPT !.i = @ + 1], ExportArray)
        /\ UNCHANGED <<storeVars, imageVars, handlerVars, threw, lastCall, boundVars,
                       historyVars>>

\* the delay between two files is over
ExportDelayEnds ==
    /\ InExport /\ ret.waiting
    /\ ret' = exportLoop([ret EXCEPT !.i = @ + 1], ExportArray)
    /\ UNCHANGED <<storeVars, imageVars, handlerVars, threw, lastCall, boundVars,
                   historyVars>>

\* the delete button of the selection list is pressed while the run waits
DeleteDuringExport(n) ==
    LET W == deleteSelectionById(TheHandler, TheImage, TheStore, SelectionId(n))
    IN  /\ InExport
        /\ SetHandler(W.h) /\ SetImage(W.v) /\ SetStore(W.s)
        /\ UNCHANGED <<callVars, boundVars, historyVars>>

\* a rejected file is chosen while the run waits: the application is reset
ResetDuringExport ==
    LET W == resetApplication(TheHandler, TheImage, TheStore)
    IN  /\ InExport
        /\ loads < MaxOverlap
        /\ SetHandler(W.h) /\ SetImage(W.v) /\ SetStore(W.s)
        /\ ret' = IF ret.alias
                  THEN [ret EXCEPT !.alias = FALSE, !.array = selections]
                  ELSE ret
        /\ loads' = loads + 1
        /\ UNCHANGED <<threw, lastCall, pending, steps, drawn, historyVars>>

NextExportRun ==
    \/ loads < MaxLoads /\ LoadImage(TRUE)
    \/ \E size \in ImageSizes : LoadComplete(size)
    \/ \E a \in CreateArgs : ~InExport /\ StoreCreate(a)
    \/ \E folder \in BOOLEAN : PerformExport(folder)
    \/ \E ok \in BOOLEAN : ExportSettles(ok)
    \/ ExportDelayEnds
    \/ \E n \in 1..MaxCreated : DeleteDuringExport(n)
    \/ ResetDuringExport

SpecExportRun == Init /\ [][NextExportRun]_vars

----------------------------------------------------------------------------
(* Properties of the selection store                                        *)

ActiveCount == Cardinality({i \in 1..Len(selections) : selections[i].active})

\* C1: in every reachable state of the application, whatever pointer, key,
\* list or menu events came before (keys in the middle of a gesture too), at
\* most one selection of the store has active = TRUE.
C1_AtMostOneActive == ActiveCount <= 1

\* C2: called directly, createSelection and deleteSelection keep the ids of
\* the N stored selections equal to selection_1 .. selection_N in list order;
\* after a deletion the survivors are renumbered in their order, and a
\* selection created after it is the last of the list with id selection_N+1.
C2_IdsContiguous ==
    /\ \A i \in 1..Len(selections) : selections[i].id = SelectionId(i)
    /\ (lastCall.op = "createSelection" /\ ~threw) =>
            /\ ret = selections[Len(selections)]
            /\ ret.id = SelectionId(Len(selections))

\* a selection was created after one had been deleted
C2_CreatedAfterDelete ==
    /\ lastCall.op = "createSelection" /\ ~threw
    /\ createdSinceReset >= 2 /\ consecutiveCreates = -1
    /\ Len(selections) >= 2

\* C3: deleteSelection(id) of a stored id removes exactly that selection and
\* keeps the others, in order, with their bounds and active flags, renumbered
\* by position.  If the deleted selection was active, no selection is active
\* afterwards and activeSelectionId is null; if another one was active it is
\* still the active one and activeSelectionId is its new id.
C3_DeleteRemapsActive ==
    [][\A n \in CallerIds :
        LET i == FindIndexById(selections, SelectionId(n))
            Survivor(k) == IF k < i THEN selections[k] ELSE selections[k + 1]
        IN  (StoreDelete(n) /\ i # 0) =>
              /\ Len(selections') = Len(selections) - 1
              /\ \A k \in 1..Len(selections') :
                    selections'[k] = [Survivor(k) EXCEPT !.id = SelectionId(k)]
              /\ selections[i].active =>
                    /\ activeSelectionId' = Null
                    /\ \A k \in 1..Len(selections') : ~selections'[k].active
              /\ \A k \in 1..Len(selections') :
                    Survivor(k).active =>
                        /\ selections'[k].active
                        /\ activeSelectionId' = SelectionId(k)
      ]_vars

\* a selection in front of the active one was deleted: the active one moved up
C3_ActiveMovedUp ==
    /\ lastCall.op = "deleteSelection" /\ lastCall.n < MaxCreated
    /\ Len(selections) = MaxCreated - 1
    /\ selections[Len(selections)].active
    /\ activeSelectionId = SelectionId(Len(selections))

\* C4: under the events of the application (gestures, keys pressed in the
\* middle of a gesture, the delete button of the list) the ids of the N
\* stored selections are selection_1 .. selection_N in list order.
C4_IdsContiguousUnderEvents ==
    \A i \in DOMAIN selections : selections[i].id = SelectionId(i)

\* C5: every selection in the store has width > 0 and height > 0, after any
\* sequence of draw, drag and resize gestures, loads and load completions.
C5_PositiveSize ==
    \A i \in 1..Len(selections) :
        selections[i].width > 0 /\ selections[i].height > 0

\* C6: createSelection with corners at least 1 apart on both axes appends one
\* selection with x, y the smaller coordinates and width, height the absolute
\* differences, gives it the id selection_(count + 1), makes it the only
\* active selection, returns it, and leaves the bounds and ids of the others.
C6_CreateAppends ==
    [][\A a \in CreateArgs :
        (StoreCreate(a) /\ Abs(a[3] - a[1]) >= 1 /\ Abs(a[4] - a[2]) >= 1) =>
            LET count == Len(selections)
                new == selections'[count + 1]
            IN  /\ ~threw'
                /\ Len(selections') = count + 1
                /\ new.x = Min(a[1], a[3]) /\ new.y = Min(a[2], a[4])
                /\ new.width = Abs(a[3] - a[1]) /\ new.height = Abs(a[4] - a[2])
                /\ new.id = SelectionId(count + 1)
                /\ new.active
                /\ \A k \in 1..count :
                        selections'[k] = [selections[k] EXCEPT !.active = FALSE]
                /\ ret' = new
      ]_vars

\* a selection was created from swapped corners while another one was active
C6_CreatedFromSwappedCorners ==
    /\ lastCall.op = "createSelection" /\ ~threw
    /\ Len(selections) >= 2
    /\ ret = [id |-> SelectionId(Len(selections)), x |-> 5, y |-> 6,
              width |-> 4, height |-> 2, active |-> TRUE]
    /\ selections[1].id = SelectionId(1) /\ ~selections[1].active

\* C7: a createSelection whose width or height is below 1 is rejected and
\* leaves the list, the ids and the active selection as they were.
C7_RejectedCreateChangesNothing ==
    [][\A a \in CreateArgs :
        (StoreCreate(a) /\ (Abs(a[3] - a[1]) < 1 \/ Abs(a[4] - a[2]) < 1)) =>
            /\ threw'
            /\ selections' = selections
            /\ activeSelectionId' = activeSelectionId
      ]_vars

\* a create was rejected while the store held an active selection
C7_RejectedWithActive ==
    /\ lastCall.op = "createSelection" /\ threw
    /\ Len(selections) >= 1 /\ ActiveCount = 1

\* C8: no public operation of the store raises, whatever its arguments.
C8_NeverRaises == ~threw

\* C9: updateSelection and deleteSelection with an id that is not in the
\* store change nothing: list, bounds, ids and active selection stay.
C9_UnknownIdIsNoOp ==
    [][\A n \in CallerIds :
        FindIndexById(selections, SelectionId(n)) = 0 =>
            /\ \A bounds \in UpdateArgs :
                    StoreUpdate(n, bounds) => UNCHANGED storeVars
            /\ StoreDelete(n) => UNCHANGED storeVars
      ]_vars

\* deleteSelection was called with an id that a full store cannot hold
C9_DeletedUnknownId ==
    /\ lastCall = Call("deleteSelection", MaxCreated + 1)
    /\ Len(selections) = MaxCreated
    /\ ActiveCount = 1

\* C10, as stated: reset leaves an empty list and a null activeSelectionId,
\* and the k-th createSelection after a reset gets the id selection_k.
C10_KthCreateGetsIdK ==
    /\ lastCall.op = "reset" => selections = <<>> /\ activeSelectionId = Null
    /\ (lastCall.op = "createSelection" /\ ~threw /\ createdSinceReset >= 1) =>
            ret.id = SelectionId(createdSinceReset)

\* C10, amended: reset leaves an empty list and a null activeSelectionId, and
\* the k-th createSelection after a reset gets the id selection_k as long as
\* no selection was deleted since that reset.
C10_ResetRestartsNumbering ==
    /\ lastCall.op = "reset" => selections = <<>> /\ activeSelectionId = Null
    /\ (lastCall.op = "createSelection" /\ ~threw /\ consecutiveCreates >= 1) =>
            ret.id = SelectionId(consecutiveCreates)

\* the second selection since a reset was created, nothing deleted in between
C10_SecondCreateAfterReset ==
    /\ lastCall.op = "createSelection" /\ ~threw
    /\ consecutiveCreates = 2
    /\ ret.id = SelectionId(2)

----------------------------------------------------------------------------
(* Properties of the viewport                                               *)

\* C11: in every state reachable through image load and fit, resetView,
\* zoomIn, zoomOut, setScaleKeepCentered, setZoomLevel, setScale and wheel
\* events, whatever scale is requested and however often, the scale lies
\* between minScale and maxScale.
C11_ScaleWithinBounds == minScale <= scale /\ scale <= maxScale

\* a level of 1000% was requested and the scale stopped at maxScale
C11_ClampedAtMaxScale ==
    /\ lastCall = Call("setZoomLevel", 1000)
    /\ scale = maxScale

\* C12: with an image loaded, pressing zoom out again and again eventually
\* brings the scale to exactly minScale, where canZoomOut() is false (and
\* likewise zoom in and maxScale).
C12_ZoomOutReachesMinScale ==
    image ~> (scale = minScale /\ ~canZoomOut(TheImage))

\* C13: for every scale between minScale and maxScale, every offset and
\* every canvas point p, imageToCanvas(canvasToImage(p)) is p, and for every
\* image point q, canvasToImage(imageToCanvas(q)) is q.
C13_RoundTrip ==
    lastCall.op \in {"canvasToImage", "imageToCanvas"} => ret.back = ret.from

\* a canvas point was converted at a scale other than 100% and fell
\* between two image pixels
C13_ConvertedBetweenPixels ==
    /\ lastCall.op = "canvasToImage"
    /\ scale # ScaleUnit
    /\ ret.to.x.d # 1

\* the scale and the offsets the fit rule prescribes for the loaded image
Clamp(value, low, high) == Max(low, Min(value, high))

FittedToCanvas ==
    LET byWidth == ((CanvasWidth - 40) * ScaleUnit) \div originalWidth
        byHeight == ((CanvasHeight - 40) * ScaleUnit) \div originalHeight
    IN  /\ scale = Clamp(Min(Min(byWidth, byHeight), ScaleUnit), minScale, maxScale)
        /\ offsetX = (CanvasWidth - (originalWidth * scale) \div ScaleUnit) \div 2
        /\ offsetY = (CanvasHeight - (originalHeight * scale) \div ScaleUnit) \div 2

\* C14: fitImageToCanvas, on load and on resetView, sets the scale to
\* min((canvasWidth - 40) / imageWidth, (canvasHeight - 40) / imageHeight, 1)
\* clamped to [minScale, maxScale] and each offset to
\* (canvasSize - imageSize * scale) / 2; a 4000x3000 image on an 800x600
\* canvas gets the scale 560/3000.
C14_FitFormula ==
    [][ /\ (FitZoomButton \/ \E size \in ViewSizes : LoadComplete(size))
            => FittedToCanvas'
        /\ fitScale(800, 600, 4000, 3000) = (560 * ScaleUnit) \div 3000 ]_vars

\* resetView brought a zoomed 400x300 image back to the fitted scale, which
\* is below 100% and above minScale
C14_RefittedLargeImage ==
    /\ lastCall = Call("resetView", 0)
    /\ originalWidth = 400
    /\ scale = (120 * ScaleUnit) \div 300
    /\ steps > 1

----------------------------------------------------------------------------
(* Properties of the gestures                                               *)

\* the controller is in the middle of dragging a selection
Dragging ==
    /\ image /\ isDragging /\ currentSelection # NullRef
    /\ ~isPanning /\ ~isDrawing /\ ~isResizing

\* C15: during a drag gesture, after every mouse move the dragged selection
\* has 0 <= x <= imageWidth - width and 0 <= y <= imageHeight - height, and
\* its width and height are what they were before the move, for any pointer
\* delta and any scale.
C15_DragStaysInImage ==
    [][\A p \in DragPoints \cup DiagonalPoints \cup Points :
         MouseMove(p) /\ Dragging
         => LET before == Deref(currentSelection, selections)
                after == Deref(currentSelection', selections')
            IN  /\ 0 <= after.x /\ after.x <= originalWidth - after.width
                /\ 0 <= after.y /\ after.y <= originalHeight - after.height
                /\ after.width = before.width
                /\ after.height = before.height]_vars

\* the controller is in the middle of resizing a selection
Resizing ==
    /\ image /\ isResizing /\ ~isPanning /\ ~isDrawing
    /\ currentSelection # NullRef /\ activeHandle # "null"
    /\ originalSelection # NullRef

ResizingOnly ==
    /\ Resizing
    /\ ~isDragging
    /\ originalSelection.id = Deref(currentSelection, selections).id
    /\ \A i, j \in 1..Len(selections) :
          selections[i].id = selections[j].id => i = j

----------------------------------------------------------------------------
(* Properties of export                                                     *)

\* C17: export never changes the store: whatever the export step does with
\* the sequence it is handed (removes elements from it, changes x, y, width
\* or height of its elements, adds fields to them), and whether the export
\* succeeds, fails or is cancelled, the selections keep their count, ids,
\* order, bounds and fields and the active selection stays the same.
C17_ExportLeavesStore ==
    [][\A step \in ExportSteps, confirmed \in BOOLEAN, cropFails \in BOOLEAN :
         Export(step, confirmed, cropFails) => UNCHANGED storeVars]_vars

----------------------------------------------------------------------------
(* Properties of the event handlers                                         *)

\* C18: while no image is loaded, mouse down, mouse move, mouse up, wheel
\* and key down are no-ops: the store, the viewport, the mode and the
\* gesture state are what they were.
C18_NoImageEventsAreNoOps ==
    [][EventWithoutImage => UNCHANGED <<storeVars, imageVars, handlerVars>>]_vars

\* a mouse button went up over the canvas in pan mode with no image loaded
C18_MouseUpInPanModeWithoutImage ==
    /\ ~image
    /\ mode = "pan"
    /\ lastCall = Call("mouseup", 0)

\* the controller state Idle
Idle ==
    /\ ~isDrawing /\ ~isDragging /\ ~isResizing /\ ~isPanning
    /\ activeHandle = "null"
    /\ currentSelection = NullRef
    /\ originalSelection = NullRef

\* C19: cancelCurrentOperation(), called in any controller state, leaves the
\* controller Idle (the four gesture flags false; activeHandle,
\* currentSelection and the snapshot cleared) and changes neither the mode
\* nor the store nor the viewport.
C19_CancelLeavesIdle ==
    [][CancelCurrentOperation
         => Idle' /\ UNCHANGED <<mode, storeVars, imageVars>>]_vars

\* a resize gesture was cancelled: no snapshot is left, and the store still
\* holds the selection
C19_CancelledResize ==
    /\ lastCall = Call("cancelCurrentOperation", 3)
    /\ Idle
    /\ Len(selections) > 0

\* the position-constraint policy on one axis
WithinPolicy(offset, display, canvas) ==
    IF display <= canvas
    THEN Abs(offset - (canvas - display) \div 2) <= 100
    ELSE LET minVisible == Min(200, (display * 3) \div 10)
         IN  minVisible - display <= offset /\ offset <= canvas - minVisible

\* C20: whenever no pan gesture is in progress, the offsets satisfy the
\* policy of constrainImagePosition on both axes: after a pan gesture has
\* ended and after every change of scale.
C20_OffsetsWithinPolicy ==
    image /\ ~isPanning
    => /\ WithinPolicy(offsetX, displayWidth, CanvasWidth)
       /\ WithinPolicy(offsetY, displayHeight, CanvasHeight)

----------------------------------------------------------------------------
(* Properties of the controller                                             *)

\* the part of the gesture state that says which gesture is in progress
gestureVars == <<isDrawing, isDragging, isResizing, isPanning,
                 activeHandle, currentSelection, originalSelection>>

\* C21: on mouse down with an image loaded the target is resolved in a fixed
\* priority: in pan mode panning starts, wherever the pointer is; otherwise a
\* point outside the image changes no gesture state (the start point of a
\* gesture in progress included) and no selection; otherwise a handle of the active
\* selection starts resizing, with the handle and a snapshot of the bounds,
\* even when another selection lies under the pointer; otherwise a point
\* inside a selection starts dragging and makes that selection the active
\* one; otherwise drawing starts, no selection is active and the start
\* point is recorded in image coordinates.
C21_MouseDownPriority ==
    [][\A p \in Points :
         image /\ MouseDown(p)
         => LET active == getActiveSelection(selections)
                handle == IF active # 0
                          THEN getResizeHandle(TheImage, p[1], p[2], selections[active])
                          ELSE "null"
                clicked == findSelectionAtPoint(TheImage, selections, p[1], p[2])
            IN  IF mode = "pan"
                THEN isPanning' /\ UNCHANGED storeVars
                ELSE IF ~isPointInImage(TheImage, p[1], p[2])
                THEN /\ UNCHANGED <<gestureVars, storeVars>>
                     /\ GestureInProgress # 0 => UNCHANGED dragStartPos
                ELSE IF handle # "null"
                THEN /\ isResizing'
                     /\ activeHandle' = handle
                     /\ currentSelection' = LiveRef(active)
                     /\ originalSelection'.x = selections[active].x
                     /\ originalSelection'.y = selections[active].y
                     /\ originalSelection'.width = selections[active].width
                     /\ originalSelection'.height = selections[active].height
                     /\ UNCHANGED storeVars
                ELSE IF clicked # 0
                THEN /\ isDragging'
                     /\ currentSelection' = LiveRef(clicked)
                     /\ selections'[clicked].active
                     /\ activeSelectionId' = selections[clicked].id
                ELSE /\ isDrawing'
                     /\ activeSelectionId' = Null
                     /\ \A i \in 1..Len(selections') : ~selections'[i].active
                     /\ dragStartPos' = canvasToImage(TheImage, p[1], p[2])]_vars

\* the selections whose rectangle on the canvas holds the point
SelectionsUnder(x, y) ==
    {i \in 1..Len(selections) :
        LET left == (selections[i].x * scale) \div ScaleUnit + offsetX
            top == (selections[i].y * scale) \div ScaleUnit + offsetY
            right == left + (selections[i].width * scale) \div ScaleUnit
            bottom == top + (selections[i].height * scale) \div ScaleUnit
        IN  left <= x /\ x <= right /\ top <= y /\ y <= bottom}

\* the pointer is on no handle of the active selection
OnNoHandle(x, y) ==
    LET active == getActiveSelection(selections)
    IN  active # 0 => getResizeHandle(TheImage, x, y, selections[active]) = "null"

HandlePointOf(sel, handleType) ==
    LET left == (sel.x * scale) \div ScaleUnit + offsetX
        top == (sel.y * scale) \div ScaleUnit + offsetY
        width == (sel.width * scale) \div ScaleUnit
        height == (sel.height * scale) \div ScaleUnit
    IN  CASE handleType = "nw" -> <<left, top>>
          [] handleType = "ne" -> <<left + width, top>>
          [] handleType = "sw" -> <<left, top + height>>
          [] handleType = "se" -> <<left + width, top + height>>
          [] handleType = "n" -> <<left + width \div 2, top>>
          [] handleType = "s" -> <<left + width \div 2, top + height>>
          [] handleType = "w" -> <<left, top + height \div 2>>
          [] handleType = "e" -> <<left + width, top + height \div 2>>

\* the handle point is within 4 canvas pixels of the point on both axes
NearHandle(point, sel, handleType) ==
    LET at == HandlePointOf(sel, handleType)
    IN  Abs(point.x - at[1]) <= 4 /\ Abs(point.y - at[2]) <= 4

\* C23: getResizeHandle(p, selection) returns the first handle, in the order
\* nw, ne, sw, se, n, s, w, e, whose point (a corner or an edge midpoint of
\* the selection's rectangle on the canvas) is within 4 canvas pixels of p
\* on both axes, and none when no handle is that close, at every scale.
C23_FirstHandleWithinTolerance ==
    lastCall.op = "getResizeHandle"
    => LET order == <<"nw", "ne", "sw", "se", "n", "s", "w", "e">>
           near == {k \in 1..8 : NearHandle(ret.point, ret.selection, order[k])}
       IN  IF near = {}
           THEN ret.handle = "null"
           ELSE \E k \in near : /\ ret.handle = order[k]
                                /\ \A j \in near : k <= j

\* at a scale below 100% a point within 4 pixels of both the nw and the w
\* handle was tested, and nw was returned
C23_CornerBeforeEdgeWhenZoomedOut ==
    /\ lastCall.op = "getResizeHandle"
    /\ scale < ScaleUnit
    /\ NearHandle(ret.point, ret.selection, "nw")
    /\ NearHandle(ret.point, ret.selection, "w")
    /\ ret.handle = "nw"

\* the gestures whose flag is set
GesturesInProgress ==
    {g \in {"drawing", "dragging", "resizing", "panning"} :
        \/ g = "drawing" /\ isDrawing
        \/ g = "dragging" /\ isDragging
        \/ g = "resizing" /\ isResizing
        \/ g = "panning" /\ isPanning}

\* C24: the controller is in exactly one of its five states at any time: in
\* every state reachable by mouse down, move and up and key events, two
\* mouse downs with no mouse up between them included, at most one of
\* isDrawing, isDragging, isResizing and isPanning is true.
C24_OneGestureAtATime == Cardinality(GesturesInProgress) <= 1

\* C25: after any mouse up handled with an image loaded the controller is
\* Idle, whatever state it was in (the four gesture flags false;
\* activeHandle, currentSelection and the snapshot cleared), so that a mouse
\* move that follows without a new mouse down changes neither the store nor
\* the viewport.
C25_MouseUpLeavesIdle ==
    [][\A p \in DiagonalPoints :
         /\ image /\ MouseUp(p) => Idle'
         /\ image /\ Idle /\ MouseMove(p) => UNCHANGED <<storeVars, imageVars>>]_vars

\* the part of the interval [a, b] that lies in [0, limit]
ClipLow(a, limit) == Max(0, Min(a, limit))

\* C26: a draw gesture changes the store only at mouse up.  Mouse moves
\* while drawing leave the store unchanged; at mouse up one selection is
\* created if and only if the rectangle from the recorded start point to the
\* release point is more than 10 wide and high and its part inside
\* [0, imageWidth] x [0, imageHeight] is more than 5 wide and high; the
\* created selection is that part, and otherwise the store is unchanged.
C26_DrawCommitsAtMouseUp ==
    [][\A p \in ResizePoints :
         /\ image /\ isDrawing /\ MouseMove(p) => UNCHANGED storeVars
         /\ image /\ isDrawing /\ MouseUp(p)
            => LET release == canvasToImage(TheImage, p[1], p[2])
                   left == Min(dragStartPos.x, release.x)
                   right == Max(dragStartPos.x, release.x)
                   top == Min(dragStartPos.y, release.y)
                   bottom == Max(dragStartPos.y, release.y)
                   clipLeft == ClipLow(left, originalWidth)
                   clipRight == ClipLow(right, originalWidth)
                   clipTop == ClipLow(top, originalHeight)
                   clipBottom == ClipLow(bottom, originalHeight)
                   count == Len(selections)
               IN  IF /\ right - left > 10 /\ bottom - top > 10
                      /\ clipRight - clipLeft > 5 /\ clipBottom - clipTop > 5
                   THEN /\ Len(selections') = count + 1
                        /\ selections'[count + 1].x = clipLeft
                        /\ selections'[count + 1].y = clipTop
                        /\ selections'[count + 1].width = clipRight - clipLeft
                        /\ selections'[count + 1].height = clipBottom - clipTop
                        /\ \A k \in 1..count :
                              [selections'[k] EXCEPT !.active = FALSE]
                                = [selections[k] EXCEPT !.active = FALSE]
                   ELSE UNCHANGED storeVars]_vars

\* a rectangle drawn past the right and bottom edges of the image was
\* created as the part of it inside the image, 8 wide
C26_CreatedClippedSelection ==
    /\ image /\ ~isDrawing
    /\ drawn = 1 /\ Len(selections) = 1
    /\ selections[1].x + selections[1].width = originalWidth
    /\ selections[1].width = 8

\* C27: a resize move with an edge handle changes one axis only: with the
\* handle n or s the selection's x and width stay as they were, with w or e
\* its y and height, for every selection a draw gesture can create and
\* every pointer position.
C27_EdgeHandleKeepsOtherAxis ==
    [][\A p \in EdgePoints :
         MouseMove(p) /\ ResizingOnly
         => LET before == Deref(currentSelection, selections)
                after == Deref(currentSelection', selections')
            IN  /\ activeHandle \in {"n", "s"}
                   => after.x = before.x /\ after.width = before.width
                /\ activeHandle \in {"w", "e"}
                   => after.y = before.y /\ after.height = before.height]_vars

\* C28: every stored selection lies fully inside the image in every state
\* reachable through pointer and keyboard events on one loaded image:
\* 0 <= x, 0 <= y, x + width <= imageWidth and y + height <= imageHeight
\* after creation by a draw gesture and after every drag or resize move,
\* also when Tab or Delete is pressed in the middle of the gesture.
C28_SelectionsInsideImage ==
    image =>
        \A i \in 1..Len(selections) :
            /\ 0 <= selections[i].x
            /\ 0 <= selections[i].y
            /\ selections[i].x + selections[i].width <= originalWidth
            /\ selections[i].y + selections[i].height <= originalHeight

\* a drag or a resize is the one gesture in progress
DraggingOrResizing == Dragging \/ (Resizing /\ ~isDragging)

\* C29: a drag or resize gesture only ever modifies the selection that was
\* hit at its mouse down: every mouse move of the gesture leaves the
\* bounds, ids and active flags of all other selections unchanged, and once
\* the hit selection has been deleted (Delete key or list delete, which
\* renumber the remaining ids) the mouse moves of the gesture modify no
\* selection at all.
C29_GestureTouchesHitSelectionOnly ==
    [][\A p \in DiagonalPoints :
         MouseMove(p) /\ DraggingOrResizing
         => IF currentSelection.kind = "detached"
            THEN UNCHANGED storeVars
            ELSE /\ Len(selections') = Len(selections)
                 /\ \A i \in 1..Len(selections) :
                        i # currentSelection.index => selections'[i] = selections[i]]_vars

\* C30: Escape pressed in any controller state with an image loaded leaves
\* the controller Idle and the store with no active selection, and changes
\* neither the number nor the order, ids or bounds of the selections; a
\* draw gesture interrupted by Escape creates no selection at its later
\* mouse up (a mouse up in Idle leaves the store as it is).
C30_EscapeCancelsAndDeselects ==
    [][ /\ EscapeKey
           => /\ Idle'
              /\ activeSelectionId' = Null
              /\ Len(selections') = Len(selections)
              /\ \A i \in 1..Len(selections) :
                    selections'[i] = [selections[i] EXCEPT !.active = FALSE]
              /\ UNCHANGED <<mode, imageVars>>
        /\ \A p \in DiagonalPoints :
              image /\ Idle /\ MouseUp(p) => UNCHANGED storeVars ]_vars

\* Escape interrupted a draw gesture while the store held a selection, and
\* nothing is active
C30_EscapeDuringDraw ==
    /\ lastCall = Call("Escape", 1)
    /\ Idle
    /\ Len(selections) >= 1
    /\ activeSelectionId = Null

\* the 1-based index Tab (reverse = FALSE) or Shift+Tab (reverse = TRUE) moves to
\* from the active selection, wrapping around the store's order
TabTarget(reverse) ==
    LET i == getActiveSelection(selections)
        N == Len(selections)
    IN  IF reverse THEN ((i + N - 2) % N) + 1 ELSE (i % N) + 1

\* C31: with an image loaded, N >= 1 selections and the active selection at
\* index i, Tab makes the selection at index (i+1) mod N the only active one
\* and Shift+Tab the one at index (i-1) mod N, the selections keeping their
\* order, ids and bounds; with an empty store the key changes nothing.
C31_TabCyclesActive ==
    [][\A key \in {"Tab", "ShiftTab"} :
        (image /\ KeyDown(key)) =>
            IF Len(selections) = 0 THEN UNCHANGED storeVars
            ELSE getActiveSelection(selections) # 0 =>
                    /\ Len(selections') = Len(selections)
                    /\ \A k \in 1..Len(selections) :
                          selections'[k] =
                              [selections[k] EXCEPT
                                   !.active = (k = TabTarget(key = "ShiftTab"))]
                    /\ activeSelectionId' =
                           selections[TabTarget(key = "ShiftTab")].id]_vars

\* C32: a mode switch (toolbar buttons, Space key) or an application reset
\* leaves no gesture in progress, whatever gesture it interrupts, and the
\* mouse moves and mouse ups that follow it, up to the next mouse down,
\* change neither the store nor the viewport.
C32_InterruptCancelsGesture ==
    [][/\ lastCall'.op = "interrupt" => GestureInProgress' = 0
       /\ lastCall'.op = "afterInterrupt"
              => UNCHANGED <<storeVars, imageVars>> /\ GestureInProgress' = 0]_vars

\* a draw gesture was interrupted by a switch to pan mode and the mouse was
\* then moved or released: no selection was created
C32_ReleasedAfterInterruptedDraw ==
    /\ lastCall = Call("afterInterrupt", 1)
    /\ mode = "pan"
    /\ image
    /\ selections = <<>>

----------------------------------------------------------------------------
(* Properties of the zoom operations                                        *)

C34_AnchorStaysFixed ==
    lastCall.op = "setScaleAt" /\ ret.changed /\ ~ret.constrained
        => ret.after = ret.before

\* the scale was changed about an anchor that is not the centre of the image
\* and falls between two image pixels, and the constraint moved nothing
C34_ZoomedAboutOffCentreAnchor ==
    /\ lastCall.op = "setScaleAt"
    /\ ret.changed /\ ~ret.constrained
    /\ ret.before.x.d # 1
    /\ ret.before.x # Rat(originalWidth, 2)

\* C35: after constrainImagePosition() the image is never entirely out of
\* view: the displayed image [offset, offset + displaySize] and the canvas
\* [0, canvasSize] have a point in common on both axes.
C35_ImageInViewAfterConstraint ==
    image /\ lastCall.op = "constrainImagePosition"
    => /\ offsetX <= CanvasWidth /\ offsetX + displayWidth >= 0
       /\ offsetY <= CanvasHeight /\ offsetY + displayHeight >= 0

\* the distance from the centred position that constrainImagePosition allows
\* to an image that fits the canvas
MaxDeviation == 100

\* the displayed image and the canvas overlap on an axis
InView(offset, display, canvas) == offset < canvas /\ offset + display > 0

\* C35 (amended): after constrainImagePosition() the displayed image
\* overlaps the canvas on every axis on which the image is larger than the
\* canvas, or the display size and the canvas size together exceed twice the
\* allowed deviation from the centre.
C35_InViewOnRoomyAxes ==
    image /\ lastCall.op = "constrainImagePosition"
    => /\ displayWidth + CanvasWidth > 2 * MaxDeviation
            => InView(offsetX, displayWidth, CanvasWidth)
       /\ displayHeight + CanvasHeight > 2 * MaxDeviation
            => InView(offsetY, displayHeight, CanvasHeight)

\* an image lower than the canvas was panned down and the constraint brought
\* it back to the allowed deviation from the centre, where a strip of it is
\* still in view
C35_HeldAtDeviationLimit ==
    /\ image /\ lastCall.op = "constrainImagePosition"
    /\ displayHeight <= CanvasHeight
    /\ displayHeight + CanvasHeight > 2 * MaxDeviation
    /\ offsetY = (CanvasHeight - displayHeight) \div 2 + MaxDeviation

\* C36: from any scale between minScale and maxScale, canZoomIn() is false
\* after setScale(maxScale), canZoomOut() is false after setScale(minScale),
\* and both are true after setScale(1).
C36_ZoomStateAfterSetScale ==
    /\ lastCall = Call("setScale", maxScale) => ~canZoomIn(TheImage)
    /\ lastCall = Call("setScale", minScale) => ~canZoomOut(TheImage)
    /\ lastCall = Call("setScale", ScaleUnit)
          => canZoomIn(TheImage) /\ canZoomOut(TheImage)

----------------------------------------------------------------------------
(* Properties of image loading                                              *)

\* C37: at the moment a newly decoded image becomes the current image the
\* selection store is empty and the controller is Idle, however the load
\* requests, the load completions and the user's gestures interleave: no
\* selection drawn on one image is still there when another image is shown.
C37_ImageReplacedOnResetState ==
    [][(image' /\ pending' < pending) => selections' = <<>> /\ Idle']_vars

\* C38: a failed image load changes nothing: when the chosen file is
\* rejected, the image, the viewport, the selections and the active
\* selection are what they were before the file was chosen.
C38_FailedLoadChangesNothing ==
    [][ResetApplication => UNCHANGED <<storeVars, imageVars>>]_vars

----------------------------------------------------------------------------
(* Properties of the export                                                 *)

\* C39: a run of performExport handles every selection that was in the
\* store when it started, once and in store order (the i-th as file i),
\* whether or not an earlier one failed, and reports overall success only
\* when every one of them was exported, whatever selections the user
\* deletes and whatever resets happen while the run waits between files.
C39_ExportHandlesEverySelection ==
    lastCall.op = "performExport" /\ ret.finished
    => /\ Len(ret.handled) = Len(ret.atStart)
       /\ \A k \in 1..Len(ret.atStart) :
             k <= Len(ret.handled)
             => ret.handled[k].index = k /\ ret.handled[k].bounds = ret.atStart[k]
       /\ ret.success
             => \A k \in 1..Len(ret.atStart) :
                   k <= Len(ret.handled) /\ ret.handled[k].ok

\* C40: in every reachable state activeSelectionId agrees with the active
\* flags of the store: it is null exactly when no selection has active = TRUE,
\* and otherwise exactly one selection is active and its id is
\* activeSelectionId (also after setActiveSelection with an id that matches no
\* selection, after a renumbering and after drag or resize updates).
C40_ActiveIdAgreesWithFlags ==
    /\ (activeSelectionId = Null) <=> (ActiveCount = 0)
    /\ activeSelectionId # Null
          => /\ ActiveCount = 1
             /\ \A i \in 1..Len(selections) :
                   selections[i].active => selections[i].id = activeSelectionId

====
